---- MODULE Spec2Model ----
(***************************************************************************)
(* State-machine model of the warehouse-setup-service provisioning engine: *)
(*   - app/tasks/terraform.py   run_terraform_commands and TerraformTask   *)
(*   - app/core/config.py       Settings (job-scoped tfvars files)         *)
(*   - app/services/terraform_job_store.py   TerraformJobStore             *)
(*   - app/api/...              the status endpoints                       *)
(*                                                                         *)
(* Paths are sequences of path components; an absolute path starts with    *)
(* the component "/".  A Python None is the record Null; a dict is a TLA+  *)
(* function from its keys.  Pydantic field validation of the response      *)
(* objects is not modelled: a response is the record of fields the handler *)
(* puts in it.                                                             *)
(***************************************************************************)
EXTENDS Naturals, Integers, Sequences, FiniteSets, TLC

\* ----------------------------------------------------------------- bounds

\* Number of jobs one worker process executes one after the other.
MaxJobs == 2

\* Number of Job Store operations applied to the store.
MaxStoreOps == 4

\* Number of job records created in the store.
MaxStoreJobs == 2

\* Bytes a pipe of the child process holds before a write to it blocks.
PipeCapacity == 1

\* Writes a child process makes before it exits.
MaxWrites == 4

\* ------------------------------------------------------------ basic values

Null == [null |-> TRUE]

EmptyDict == <<>>

\* An absent text (None where a str is expected).
NoText == "none"

\* HTTP responses: 404, 200 with a body, and the 500 the route handlers turn
\* every exception into.
NotFound == [code |-> 404, endpoint |-> "none", body |-> Null]

Response(endpoint, body) == [code |-> 200, endpoint |-> endpoint, body |-> body]

ServerError(endpoint, detail) ==
    [code |-> 500, endpoint |-> endpoint, body |-> Null, detail |-> detail]

\* str(e) of an HTTPException, the detail of the 500 that replaces it: the
\* status code, then the exception's own detail.
StrOfHTTPException(status_code, detail) == <<status_code, detail>>

\* Detail of the 404 a provisioning route raises when the module's
\* terraform.tfvars is missing.
TfvarsNotFound == "Terraform vars file not found"

Put(m, k, v) == [x \in (DOMAIN m) \cup {k} |-> IF x = k THEN v ELSE m[x]]

\* Python truthiness of an optional dict: None and {} are falsy.
Truthy(d) == d # Null /\ DOMAIN d # {}

\* ------------------------------------------------------------------- paths

IsAbs(p) == Len(p) > 0 /\ p[1] = "/"

\* os.path.abspath relative to the process's current working directory.
AbsPath(cwdir, p) == IF IsAbs(p) THEN p ELSE cwdir \o p

DirName(p) == IF Len(p) > 1 THEN SubSeq(p, 1, Len(p) - 1) ELSE p

BaseName(p) == IF Len(p) > 0 /\ p[Len(p)] # "/" THEN p[Len(p)] ELSE ""

Join(p, name) == Append(p, name)

\* Substring tables of the path components the model uses.
HasCreateSuperset(n) == n \in {"createSuperset"}

HasSupersetLower(n) == n \in {"createSuperset", "superset_stack"}

HasCreateWarehouse(n) == n \in {"createWarehouse"}

HasWarehouseLower(n) == n \in {"createWarehouse", "warehouse_service"}

EndsWithTerraformFiles(n) == n \in {"terraform_files"}

\* `word in path` for a whole path string: some component contains it.
PathHasCreateSuperset(p) == \E i \in 1..Len(p) : HasCreateSuperset(p[i])

PathHasSupersetLower(p) == \E i \in 1..Len(p) : HasSupersetLower(p[i])

PathHasCreateWarehouse(p) == \E i \in 1..Len(p) : HasCreateWarehouse(p[i])

PathHasWarehouseLower(p) == \E i \in 1..Len(p) : HasWarehouseLower(p[i])

\* ---------------------------------------------------------------- settings

\* The deployed configurations: config.py defaults (relative paths), the same
\* tree given as absolute paths, and a tree that keeps its modules one level
\* deeper (terraform_files/modules/<module>).
DefaultSettings ==
    [ wh |-> <<"app", "terraform_files", "createWarehouse">>,
      ss |-> <<"app", "terraform_files", "createSuperset">>,
      tc |-> <<"app", "terraform_files", "temp_task_configs">> ]

AbsoluteSettings ==
    [ wh |-> <<"/", "srv", "app", "terraform_files", "createWarehouse">>,
      ss |-> <<"/", "srv", "app", "terraform_files", "createSuperset">>,
      tc |-> <<"/", "srv", "app", "terraform_files", "temp_task_configs">> ]

NestedSettings ==
    [ wh |-> <<"/", "srv", "terraform_files", "modules", "createWarehouse">>,
      ss |-> <<"/", "srv", "terraform_files", "modules", "createSuperset">>,
      tc |-> <<"/", "srv", "terraform_files", "temp_task_configs">> ]

Deployments == {DefaultSettings, AbsoluteSettings, NestedSettings}

\* Directory the API and worker processes are started in.
StartDir == <<"/", "srv">>

\* What is on disk under the module directories.
FsScenarios == {"intact", "no_main_tf", "no_tfvars", "no_dir"}

VARIABLES
    settings,     \* the Settings object (one of Deployments)
    fsScenario,   \* state of the module directories on disk
    cwd,          \* the worker process's current working directory
    dirs,         \* existing temp_task_configs directories (absolute paths)
    files,        \* existing job-scoped tfvars files (absolute paths)
    nextId,       \* next task id to hand out
    task,         \* the task the worker holds: [id, terraform_path, credentials]
    taskState,    \* the task's state in the result backend
    pc,           \* the worker's position in run_terraform_commands
    tfPath,       \* local terraform_path after resolution
    tfvarsFile,   \* local task_tfvars_path
    cmds,         \* the external commands the job has run, in order
    result,       \* the value run_terraform_commands returned
    store,        \* Redis hashes job:<id> of the Job Store
    storeOps,     \* number of Job Store operations applied
    resp,         \* the last response of an endpoint
    template,     \* content of each module's canonical terraform.tfvars
    written,      \* content of the job-scoped tfvars file last written
    ttl,          \* ids of the Redis keys job:<id> that have an expiry set
    call,         \* the Job Store call in flight between two Redis commands
    child,        \* the child process of run_with_live_output
    pipe,         \* bytes held in the child's stdout and stderr pipes
    runner,       \* run_with_live_output: main thread and reader threads
    lock,         \* holder of the state lock of the module directory
    jobs          \* position of each of two jobs run on the same module

seqVars == <<settings, fsScenario, cwd, dirs, files, nextId, task, taskState,
             pc, tfPath, tfvarsFile, cmds, result>>

\* Redis expiry, the pipes of a child process and the state lock: only the
\* actions of their own sections change them.
expiryVars == <<ttl, call>>

pipeVars == <<child, pipe, runner>>

lockVars == <<lock, jobs>>

storeVars == <<store, storeOps, resp, expiryVars, pipeVars, lockVars>>

tfvarsVars == <<template, written, expiryVars, pipeVars, lockVars>>

vars == <<settings, fsScenario, cwd, dirs, files, nextId, task, taskState,
          pc, tfPath, tfvarsFile, cmds, result, store, storeOps, resp,
          template, written, ttl, call, child, pipe, runner, lock, jobs>>

\* No store call in flight, no child process, the lock free, no job started.
NoCall == [op |-> "none"]

NoChild == [state |-> "none", prog |-> <<>>]

EmptyPipes == [stdout |-> 0, stderr |-> 0]

IdleRunner == [pc |-> "idle", readers |-> [stdout |-> "unstarted", stderr |-> "unstarted"]]

Unlocked == "unlocked"

EnvInit ==
    /\ ttl = {}
    /\ call = NoCall
    /\ child = NoChild
    /\ pipe = EmptyPipes
    /\ runner = IdleRunner
    /\ lock = Unlocked
    /\ jobs = <<>>

\* --------------------------------------------------------------- the disk

\* Module directories that exist (absolute paths).
ModuleDirs ==
    IF fsScenario = "no_dir" THEN {}
    ELSE {AbsPath(StartDir, settings.wh), AbsPath(StartDir, settings.ss)}

\* Module directories holding a main.tf.
MainTfDirs == IF fsScenario = "no_main_tf" THEN {} ELSE ModuleDirs

\* Module directories holding the canonical terraform.tfvars.
TfvarsDirs == IF fsScenario = "no_tfvars" THEN {} ELSE ModuleDirs

\* os.path.exists of a module directory, resolved against the caller's cwd.
PathExists(cwdir, p) == AbsPath(cwdir, p) \in ModuleDirs

\* A job-scoped file <module_type>.<task_id>.tfvars in directory dir.
TfvarsFileAt(dir, mtype, id) == [dir |-> dir, type |-> mtype, id |-> id]

\* -------------------------------------------------- config.py: Settings

\* create_task_specific_tfvars: the terraform_files directory found from the
\* module path.
CreateTerraformFilesDir(absModule) ==
    LET up2 == DirName(DirName(absModule))
        hits == {i \in 1..Len(absModule) : absModule[i] = "terraform_files"}
    IN  IF Len(up2) > 0 /\ EndsWithTerraformFiles(up2[Len(up2)]) THEN up2
        ELSE IF hits = {} THEN up2
        ELSE SubSeq(absModule, 1, CHOOSE i \in hits : \A j \in hits : i <= j)

CreateTaskConfigsDir(absModule) ==
    Join(CreateTerraformFilesDir(absModule), "temp_task_configs")

\* create_task_specific_tfvars: the module-type tag of the file name.
CreateModuleType(absModule) ==
    IF PathHasCreateSuperset(absModule) \/ PathHasSupersetLower(absModule)
    THEN "superset"
    ELSE "warehouse"

\* create_task_specific_tfvars(module_path, task_id, ...): the path written.
TaskSpecificTfvarsPath(cwdir, modulePath, id) ==
    LET absModule == AbsPath(cwdir, modulePath)
    IN  TfvarsFileAt(CreateTaskConfigsDir(absModule), CreateModuleType(absModule), id)

\* cleanup_task_tfvars: the directory it looks in.
CleanupTaskConfigsDir(cwdir) ==
    Join(DirName(DirName(AbsPath(cwdir, settings.ss))), "temp_task_configs")

\* cleanup_task_tfvars(task_id): the directories and files it leaves.
CleanupDirs(cwdir) == dirs \cup {CleanupTaskConfigsDir(cwdir)}

CleanupFiles(cwdir, id) ==
    IF CleanupTaskConfigsDir(cwdir) \notin dirs THEN files
    ELSE files \ { TfvarsFileAt(CleanupTaskConfigsDir(cwdir), t, id) :
                     t \in {"warehouse", "superset"} }

\* ------------------------------------------------- tfvars files as text

\* Largest number of lines of a template the model reads.
MaxLines == 3

\* A line of text without its terminator: the text before its first "=", as
\* tokens, whether it has a "=", and the tokens after that "=".
Line(pre, eq, post) == [pre |-> pre, eq |-> eq, post |-> post]

\* A double-quoted string.
Quoted(text) == <<"\"", text, "\"">>

\* "# Comments should be preserved"
CommentLine == Line(<<"# Comments should be preserved">>, FALSE, <<>>)

\* `APP_DB_NAME = "old_value"`
StringLine == Line(<<"APP_DB_NAME", " ">>, TRUE, <<" ">> \o Quoted("old_value"))

\* `  APP_DB_USER="old_user" # owner`
IndentedLine ==
    Line(<<"  ", "APP_DB_USER">>, TRUE, Quoted("old_user") \o <<" ", "# owner">>)

\* `# APP_DB_NAME = "example"`
CommentedOutLine ==
    Line(<<"# ", "APP_DB_NAME", " ">>, TRUE, <<" ">> \o Quoted("example"))

\* `CONTAINER_PORT = 123`
NumberLine == Line(<<"CONTAINER_PORT", " ">>, TRUE, <<" ", "123">>)

\* `bool_key = true`
BoolLine == Line(<<"bool_key", " ">>, TRUE, <<" ", "true">>)

BlankLine == Line(<<>>, FALSE, <<>>)

TemplateLines ==
    { CommentLine, StringLine, IndentedLine, CommentedOutLine, NumberLine,
      BoolLine, BlankLine }

\* The content of a text file: its lines, the terminator between them ("lf"
\* for \n, "crlf" for \r\n), and whether the last line is terminated too.
FileText(lines, eol, final) == [lines |-> lines, eol |-> eol, final |-> final]

LineSeqs == UNION {[1..n -> TemplateLines] : n \in 0..MaxLines}

\* Number of line terminators in a file's text.
Terminators(file) ==
    IF Len(file.lines) = 0 THEN 0
    ELSE Len(file.lines) - 1 + (IF file.final THEN 1 ELSE 0)

\* The templates the model reads.  An empty file has no terminator, and a
\* text without any terminator is written with eol = "lf".
TemplateFiles ==
    { f \in { FileText(ls, eol, final) :
                ls \in LineSeqs, eol \in {"lf", "crlf"}, final \in BOOLEAN } :
        /\ Len(f.lines) = 0 => ~f.final
        /\ Terminators(f) = 0 => f.eol = "lf" }

\* Values of a replacements dict: a str, an int, a bool, each with the text
\* Python's str() gives for it.
StrValue(text) == [type |-> "str", text |-> text]

IntValue(text) == [type |-> "int", text |-> text]

BoolValue(b) == [type |-> "bool", text |-> IF b THEN "True" ELSE "False"]

\* str.isdigit on the texts of the model.
isdigit(text) == text \in {"8088", "456", "123", "5432"}

\* str.lower on the texts str(bool) gives.
lower(text) ==
    CASE text = "True" -> "true"
      [] text = "False" -> "false"
      [] OTHER -> text

IsSpace(token) == token \in {" ", "  "}

\* The tokens of s after its leading whitespace.
RECURSIVE LStrip(_)
LStrip(s) == IF Len(s) > 0 /\ IsSpace(s[1]) THEN LStrip(Tail(s)) ELSE s

\* re.match(rf"^\s*{key}\s*=", line): optional whitespace, the key, optional
\* whitespace, then the line's first "=".
KeyMatches(key, line) ==
    /\ line.eq
    /\ LET s == LStrip(line.pre)
       IN  /\ Len(s) >= 1
           /\ s[1] = key
           /\ \A i \in 2..Len(s) : IsSpace(s[i])

\* The texts of the model that begin and end with a double quote.
IsQuotedText(text) == text \in {"\"orders\""}

\* Formatting that leaves a str alone when it is already quoted.
formatted_value_unless_quoted(value) ==
    IF value.type = "str" /\ IsQuotedText(value.text) THEN <<value.text>>
    ELSE IF value.type = "str" /\ ~isdigit(value.text) THEN Quoted(value.text)
    ELSE IF value.type = "bool" THEN <<lower(value.text)>>
    ELSE <<value.text>>

\* A str that is not all digits is double-quoted, a bool is lowercased,
\* anything else is str(value).
formatted_value(value) ==
    IF value.type = "str" /\ ~isdigit(value.text) THEN Quoted(value.text)
    ELSE IF value.type = "bool" THEN <<lower(value.text)>>
    ELSE <<value.text>>

\* The replacement of a line by the bare str(value).
ReplacedLineUnformatted(line, value) == Line(line.pre, TRUE, <<" ", value.text>>)

\* re.sub(r"=\s*.*$", f"= {formatted_value}", line): everything from the
\* first "=" to the end of the line is replaced.
ReplacedLine(line, value) == Line(line.pre, TRUE, <<" ">> \o formatted_value(value))

\* One pass of the inner loop: the line after the first matching key, or the
\* line itself.
SubstitutedLine(line, replacements) ==
    LET keys == {k \in DOMAIN replacements : KeyMatches(k, line)}
    IN  IF keys = {} THEN line
        ELSE ReplacedLine(line, replacements[CHOOSE k \in keys : TRUE])

\* open(path, 'r').read(): universal newlines turn every terminator into \n.
ReadText(file) == [file EXCEPT !.eol = "lf"]

\* "\n".join(lines): \n between the lines and none after the last.
JoinLines(lines) == FileText(lines, "lf", FALSE)

\* A variant that appends an assignment for every key no line assigns.
TaskTfvarsContentAddingKeys(file, replacements) ==
    LET content == ReadText(file)
        missing == IF Truthy(replacements)
                   THEN {k \in DOMAIN replacements :
                            \A i \in 1..Len(content.lines) :
                                ~KeyMatches(k, content.lines[i])}
                   ELSE {}
    IN  IF Truthy(replacements)
        THEN JoinLines([i \in 1..Len(content.lines) |->
                            SubstitutedLine(content.lines[i], replacements)]
                       \o IF missing = {} THEN <<>>
                          ELSE LET k == CHOOSE x \in missing : TRUE
                               IN  <<ReplacedLine(Line(<<k, " ">>, TRUE, <<>>),
                                                  replacements[k])>>)
        ELSE content

\* create_task_specific_tfvars, the content it writes to the job-scoped file
\* from the template's content and the replacements.
TaskTfvarsContent(file, replacements) ==
    LET content == ReadText(file)
    IN  IF Truthy(replacements)
        THEN JoinLines([i \in 1..Len(content.lines) |->
                            SubstitutedLine(content.lines[i], replacements)])
        ELSE content

\* The canonical terraform.tfvars of the module directory dir.
TemplateOf(dir) ==
    IF dir = AbsPath(StartDir, settings.wh) THEN template.warehouse
    ELSE template.superset

\* Templates of a deployment.
DefaultTemplates ==
    [ warehouse |-> FileText(<<CommentLine, StringLine, IndentedLine>>, "lf", TRUE),
      superset |-> FileText(<<CommentLine, StringLine, NumberLine>>, "lf", TRUE) ]

\* Replacements as routes.create_postgres_db and routes.create_superset build
\* them.
PostgresReplacements ==
    [ APP_DB_NAME |-> StrValue("orders"), APP_DB_USER |-> StrValue("orders_user"),
      APP_DB_PASS |-> StrValue("pw-db") ]

SupersetReplacements ==
    [ CLIENT_NAME |-> StrValue("acme"), OUTPUT_DIR |-> StrValue("../../../acme"),
      SUPERSET_SECRET_KEY |-> StrValue("pw-secret"),
      SUPERSET_ADMIN_USERNAME |-> StrValue("admin"),
      SUPERSET_ADMIN_PASSWORD |-> StrValue("pw-admin"),
      APP_DB_USER |-> StrValue("superset_acme"), APP_DB_PASS |-> StrValue("pw-db"),
      APP_DB_NAME |-> StrValue("superset_acme"),
      neworg_name |-> StrValue("acme.dalgo.org"), CONTAINER_PORT |-> StrValue("8088"),
      rule_priority |-> StrValue("8088"), appli_ec2 |-> StrValue("i-0abc") ]

\* Replacements of the shapes the unit test passes: an int and a bool.
TypedReplacements == [CONTAINER_PORT |-> IntValue("456"), bool_key |-> BoolValue(FALSE)]

\* Replacements of a request whose dbname came with its own double quotes.
QuotedReplacements == [APP_DB_NAME |-> StrValue("\"orders\"")]

ReplacementInputs ==
    { Null, EmptyDict, PostgresReplacements, SupersetReplacements,
      TypedReplacements, QuotedReplacements }

\* ------------------------------------- tasks/terraform.py: the task's inputs

\* Credentials as routes.create_postgres_db and routes.create_superset build
\* them.
PostgresCredentials ==
    [ dbname |-> "orders", host |-> "rds.example.com", port |-> "5432",
      user |-> "orders_user", password |-> "pw-db" ]

SupersetCredentials ==
    [ superset_url |-> "https://acme.dalgo.org", admin_username |-> "admin",
      admin_password |-> "pw-admin" ]

\* A Superset mapping that already has a port key of its own.
SupersetCredentialsWithPort ==
    [ superset_url |-> "https://acme.dalgo.org", admin_username |-> "admin",
      admin_password |-> "pw-admin", port |-> 8088 ]

\* The other values the task's signature admits: None (the default), an
\* empty mapping, a mapping of another shape than the routes'.
CredentialInputs == {Null, EmptyDict, SupersetCredentialsWithPort}

\* Keys the port enrichment assigns.
PortKeys == {"port", "port_changed", "priority"}

\* A module path that is not on disk.
MissingWarehousePath == <<"missing", "createWarehouse">>

PathInputs == {settings.wh, settings.ss, MissingWarehousePath}

NoTask ==
    [id |-> 0, terraform_path |-> <<>>, credentials |-> Null, replacements |-> Null]

\* Outcome of one external command: exit code zero or not, the lock indicator
\* in stderr or not, or the command could not be run (Popen raises).
CmdOutcomes == {"ok", "ok_lock", "fail", "fail_lock", "raise"}

\* Outcomes of a retry: its stderr is read only for the error message.
RetryOutcomes == {"ok", "fail", "fail_lock", "raise"}

ExitZero(o) == o \in {"ok", "ok_lock"}

LockInStderr(o) == o \in {"ok_lock", "fail_lock"}

\* stderr of `terraform state list`: no lock text, lock text without a
\* "Lock Info: ID:" match, lock text with a lock id; or the command raises.
StateListOutcomes == {"clean", "lock_no_id", "lock_id", "raise"}

\* `terraform output -json`: the command cannot be run, exits non-zero with
\* nothing on stdout, or exits zero with stdout empty, not JSON, the JSON of
\* the module's outputs, or ("flat_port") JSON of another shape, with the
\* port itself where the tool prints a mapping with the key "value".
OutputKinds ==
    { "raise", "failed", "empty", "invalid", "plain", "port_changed", "port_same",
      "flat_port" }

\* The kinds whose stdout is valid JSON.
ValidJsonKinds == {"plain", "port_changed", "port_same", "flat_port"}

\* json.loads(output_stdout) of a valid JSON stdout.
OutputJson(kind) ==
    CASE kind = "plain" -> [endpoint |-> [value |-> "db.example.com"]]
      [] kind = "port_changed" ->
            [ actual_port |-> [value |-> 8089],
              port_changed |-> [value |-> TRUE],
              actual_priority |-> [value |-> 101] ]
      [] kind = "port_same" -> [actual_port |-> [value |-> 8088]]
      [] kind = "flat_port" -> [actual_port |-> 8089]

\* Line 409: outputs['actual_port'].get('value') raises AttributeError when
\* the entry is not a mapping.
EnrichmentRaises(kind) == kind = "flat_port"

\* Outputs that keep the parsed JSON whatever the enrichment does.
ParsedOutputsOfAnyShape(kind) ==
    IF kind \in ValidJsonKinds THEN OutputJson(kind) ELSE EmptyDict

\* Lines 400-433: outputs after the try: the parsed JSON, or {} when stdout
\* is blank, or when the command, the parsing or the enrichment raised.
ParsedOutputs(kind) ==
    IF kind \in ValidJsonKinds /\ ~EnrichmentRaises(kind)
    THEN OutputJson(kind) ELSE EmptyDict

Cmd(name, nolock, out) == [cmd |-> name, nolock |-> nolock, out |-> out]

\* ------------------------------------- run_with_live_output: the stderr

\* A text: its lines as token sequences, and whether the last line ends in a
\* newline.
Text(lines, final) == [lines |-> lines, final |-> final]

\* What the command writes to its stderr pipe, by outcome: terraform ends
\* every line with a newline and pads some lines.
ToolStderr(o) ==
    CASE o = "fail" -> Text(<< <<"Error: Invalid value for variable">> >>, TRUE)
      [] o = "fail_lock" ->
            Text(<< <<"Error: Error acquiring the state lock", " ">>,
                    <<"Lock Info:">> >>, TRUE)
      [] o = "ok_lock" -> Text(<< <<"Releasing state lock">> >>, TRUE)
      [] OTHER -> Text(<<>>, FALSE)

\* line.rstrip(): the tokens of s before its trailing whitespace.
RECURSIVE RStrip(_)
RStrip(s) ==
    IF Len(s) > 0 /\ IsSpace(s[Len(s)]) THEN RStrip(SubSeq(s, 1, Len(s) - 1))
    ELSE s

\* The stderr string run_with_live_output returns: each line read from the
\* pipe is rstripped, and the lines are joined with "\n".
CollectedStderr(text) ==
    Text([i \in DOMAIN text.lines |-> RStrip(text.lines[i])], FALSE)

\* ----------------------------------------- tasks/terraform.py: the results

ErrorResultLeaking(error, phase, destroy) ==
    [ status |-> "error", phase |-> phase, error |-> error,
      credentials |-> task.credentials, outputs |-> Null,
      destroy_status |-> destroy ]

\* The dict of an error return: "credentials": None in each of them.
ErrorResult(error, phase, destroy) ==
    [ status |-> "error", phase |-> phase, error |-> error,
      credentials |-> Null, outputs |-> Null, destroy_status |-> destroy ]

SuccessResultWithoutCredentials(outputs, credentials) ==
    [ status |-> "success", phase |-> "none", error |-> "none",
      credentials |-> Null, outputs |-> outputs, destroy_status |-> "none" ]

\* The dict of the success return.
SuccessResult(outputs, credentials) ==
    [ status |-> "success", phase |-> "none", error |-> "none",
      credentials |-> credentials, outputs |-> outputs,
      destroy_status |-> "none" ]

\* The port enrichment applied to any credentials, with or without
\* superset_url.
EnrichedCredentialsOfAnyJob(credentials, outputs) ==
    IF "actual_port" \in DOMAIN outputs /\ Truthy(credentials)
    THEN Put(Put(credentials, "port", outputs["actual_port"].value),
             "port_changed",
             IF "port_changed" \in DOMAIN outputs
             THEN outputs["port_changed"].value ELSE FALSE)
    ELSE credentials

\* The port enrichment of the credentials after a parsed output.
EnrichedCredentials(credentials, outputs) ==
    IF "actual_port" \in DOMAIN outputs /\ Truthy(credentials)
       /\ "superset_url" \in DOMAIN credentials
    THEN LET withPort == Put(credentials, "port", outputs["actual_port"].value)
             changed == IF "port_changed" \in DOMAIN outputs
                        THEN outputs["port_changed"].value ELSE FALSE
             withFlag == Put(withPort, "port_changed", changed)
         IN  IF "actual_priority" \in DOMAIN outputs
             THEN Put(withFlag, "priority", outputs["actual_priority"].value)
             ELSE withFlag
    ELSE credentials

\* The function returns r: Celery stores it under state SUCCESS, and the
\* on_success handler is still to run.
Return(r) ==
    /\ result' = r
    /\ taskState' = "SUCCESS"
    /\ pc' = "returned"

\* ------------------------------------------------ enqueueing (Task Dispatcher)

\* run_terraform_commands.apply_async(args=[terraform_path, credentials, ...]):
\* a fresh task id, state PENDING, picked up by the worker when it is free.
ApplyAsync(path, credentials, replacements) ==
    /\ pc \in {"idle", "done"}
    /\ nextId <= MaxJobs
    /\ task' = [ id |-> nextId, terraform_path |-> path,
                 credentials |-> credentials, replacements |-> replacements ]
    /\ nextId' = nextId + 1
    /\ taskState' = "PENDING"
    /\ pc' = "queued"
    /\ tfPath' = <<>>
    /\ tfvarsFile' = Null
    /\ cmds' = <<>>
    /\ result' = Null
    /\ UNCHANGED <<settings, fsScenario, cwd, dirs, files>>
    /\ UNCHANGED <<store, storeOps>>
    /\ UNCHANGED tfvarsVars

\* A response that names the task held before the request.
TerraformResponseOfHeldTask(task_id) ==
    [ task_id |-> task.id, status |-> "pending",
      message |-> "Terraform job is pending execution", error |-> NoText ]

\* TerraformResponse(task_id=task.id): status, message and error take the
\* schema's defaults.
TerraformResponse(task_id) ==
    [ task_id |-> task_id, status |-> "pending",
      message |-> "Terraform job is pending execution", error |-> NoText ]

\* The part of a request that changes nothing but the response.
Refuse(endpoint) ==
    /\ resp' = ServerError(endpoint, StrOfHTTPException("404", TfvarsNotFound))
    /\ UNCHANGED seqVars
    /\ UNCHANGED <<store, storeOps>>
    /\ UNCHANGED tfvarsVars

\* create_postgres_db without its check of the module's terraform.tfvars.
CreatePostgresDbUnchecked ==
    /\ ApplyAsync(settings.wh, PostgresCredentials, PostgresReplacements)
    /\ resp' = Response("create_postgres_db", TerraformResponse(task'.id))

\* routes.create_postgres_db: when the module's terraform.tfvars is missing
\* the HTTPException is caught by `except Exception` and answered with 500;
\* else the task is enqueued once with the database credentials and
\* replacements and the response carries its id.
CreatePostgresDb ==
    IF AbsPath(StartDir, settings.wh) \in TfvarsDirs
    THEN /\ ApplyAsync(settings.wh, PostgresCredentials, PostgresReplacements)
         /\ resp' = Response("create_postgres_db", TerraformResponse(task'.id))
    ELSE Refuse("create_postgres_db")

\* routes.create_superset: the same for the Superset module.
CreateSuperset ==
    IF AbsPath(StartDir, settings.ss) \in TfvarsDirs
    THEN /\ ApplyAsync(settings.ss, SupersetCredentials, SupersetReplacements)
         /\ resp' = Response("create_superset", TerraformResponse(task'.id))
    ELSE Refuse("create_superset")

\* The arguments a sender can give the task: those of the two routes, and
\* what else the signature admits, every module path with credentials = None
\* (the default), {} or any mapping, and no replacements.
TaskInputs ==
    { [ path |-> settings.wh, credentials |-> PostgresCredentials,
        replacements |-> PostgresReplacements ],
      [ path |-> settings.ss, credentials |-> SupersetCredentials,
        replacements |-> SupersetReplacements ] } \cup
    { [path |-> p, credentials |-> c, replacements |-> Null] :
        p \in PathInputs, c \in CredentialInputs }

\* run_terraform_commands.apply_async by any sender: the task is enqueued
\* whatever is on disk, and no HTTP response is involved.
SendTask ==
    /\ \E args \in TaskInputs :
           ApplyAsync(args.path, args.credentials, args.replacements)
    /\ UNCHANGED resp

\* ------------------------------------- run_terraform_commands, before `try`

\* Fallback of a module path that does not exist to the configured default.
ResolvedPath(cwdir, path) ==
    IF PathExists(cwdir, path) THEN path
    ELSE IF PathHasCreateWarehouse(path) \/ PathHasWarehouseLower(path)
         THEN settings.wh
         ELSE settings.ss

\* Lines 126-194: the temp_task_configs directory of the settings is made,
\* the task is marked STARTED, the module path is resolved and made absolute.
TaskStart ==
    /\ pc = "queued"
    /\ dirs' = dirs \cup {AbsPath(cwd, settings.tc)}
    /\ taskState' = "STARTED"
    /\ tfPath' = AbsPath(cwd, ResolvedPath(cwd, task.terraform_path))
    /\ pc' = "check_paths"
    /\ UNCHANGED <<settings, fsScenario, cwd, files, nextId, task, tfvarsFile,
                   cmds, result>>
    /\ UNCHANGED storeVars
    /\ UNCHANGED tfvarsVars

\* The same lines raising (os.makedirs or update_state fails): the exception
\* leaves the task function, Celery records FAILURE.
TaskStartRaises ==
    /\ pc = "queued"
    /\ taskState' = "FAILURE"
    /\ pc' = "raised"
    /\ UNCHANGED <<settings, fsScenario, cwd, dirs, files, nextId, task, tfPath,
                   tfvarsFile, cmds, result>>
    /\ UNCHANGED storeVars
    /\ UNCHANGED tfvarsVars

\* ----------------------------------------- run_terraform_commands, the `try`

\* The check of the module directory without the check of its main.tf.
CheckPathsDirOnly ==
    /\ pc = "check_paths"
    /\ IF tfPath \notin ModuleDirs
       THEN Return(ErrorResult("path_not_found", "none", "none"))
       ELSE pc' = "create_tfvars" /\ UNCHANGED <<result, taskState>>
    /\ UNCHANGED <<settings, fsScenario, cwd, dirs, files, nextId, task, tfPath,
                   tfvarsFile, cmds>>
    /\ UNCHANGED storeVars
    /\ UNCHANGED tfvarsVars

\* Lines 197-217: the module directory and its main.tf must exist.
CheckPaths ==
    /\ pc = "check_paths"
    /\ IF tfPath \notin ModuleDirs
       THEN Return(ErrorResult("path_not_found", "none", "none"))
       ELSE IF tfPath \notin MainTfDirs
       THEN Return(ErrorResult("main_tf_not_found", "none", "none"))
       ELSE pc' = "create_tfvars" /\ UNCHANGED <<result, taskState>>
    /\ UNCHANGED <<settings, fsScenario, cwd, dirs, files, nextId, task, tfPath,
                   tfvarsFile, cmds>>
    /\ UNCHANGED storeVars
    /\ UNCHANGED tfvarsVars

\* Lines 219-258: create_task_specific_tfvars makes its directory, raises
\* FileNotFoundError when the canonical terraform.tfvars is missing (caught by
\* the task's `except Exception`), else writes the job-scoped file; then the
\* worker changes into the module directory.
CreateTfvars ==
    /\ pc = "create_tfvars"
    /\ dirs' = dirs \cup {CreateTaskConfigsDir(tfPath)}
    /\ IF tfPath \notin TfvarsDirs
       THEN /\ Return(ErrorResult("unexpected", "none", "none"))
            /\ UNCHANGED <<files, tfvarsFile, cwd, written>>
       ELSE /\ files' = files \cup {TaskSpecificTfvarsPath(cwd, tfPath, task.id)}
            /\ written' = TaskTfvarsContent(TemplateOf(tfPath), task.replacements)
            /\ tfvarsFile' = TaskSpecificTfvarsPath(cwd, tfPath, task.id)
            /\ cwd' = tfPath
            /\ pc' = "state_list"
            /\ UNCHANGED <<result, taskState>>
    /\ UNCHANGED <<settings, fsScenario, nextId, task, tfPath, cmds, template>>
    /\ UNCHANGED storeVars

\* Lock cleanup that force-unlocks on any lock text in the stderr.
StateListUnlocksOnAnyLock ==
    /\ pc = "state_list"
    /\ \E o \in StateListOutcomes :
        /\ cmds' = Append(cmds, Cmd("state_list", FALSE, o))
        /\ pc' = IF o \in {"lock_id", "lock_no_id"} THEN "force_unlock" ELSE "init"
    /\ UNCHANGED <<settings, fsScenario, cwd, dirs, files, nextId, task,
                   taskState, tfPath, tfvarsFile, result>>
    /\ UNCHANGED storeVars
    /\ UNCHANGED tfvarsVars

\* Lines 260-279: lock cleanup.  `terraform state list` runs; its exit code is
\* read and dropped.  A lock id in its stderr leads to force-unlock; an
\* exception is logged and the sequence goes on.
StateList ==
    /\ pc = "state_list"
    /\ \E o \in StateListOutcomes :
        /\ cmds' = Append(cmds, Cmd("state_list", FALSE, o))
        /\ pc' = IF o = "lock_id" THEN "force_unlock" ELSE "init"
    /\ UNCHANGED <<settings, fsScenario, cwd, dirs, files, nextId, task,
                   taskState, tfPath, tfvarsFile, result>>
    /\ UNCHANGED storeVars
    /\ UNCHANGED tfvarsVars

ForceUnlock ==
    /\ pc = "force_unlock"
    /\ \E o \in {"ok", "fail", "raise"} :
        cmds' = Append(cmds, Cmd("force_unlock", FALSE, o))
    /\ pc' = "init"
    /\ UNCHANGED <<settings, fsScenario, cwd, dirs, files, nextId, task,
                   taskState, tfPath, tfvarsFile, result>>
    /\ UNCHANGED storeVars
    /\ UNCHANGED tfvarsVars

RetryPc(phase) ==
    CASE phase = "init" -> "init_retry"
      [] phase = "plan" -> "plan_retry"
      [] phase = "apply" -> "apply_retry"

NextPcSkipsPlan(phase) ==
    CASE phase = "init" -> "apply"
      [] phase = "plan" -> "apply"
      [] phase = "apply" -> "output"

NextPc(phase) ==
    CASE phase = "init" -> "plan"
      [] phase = "plan" -> "apply"
      [] phase = "apply" -> "output"

FailureMessage(phase) ==
    CASE phase = "init" -> "Terraform init failed"
      [] phase = "plan" -> "Terraform plan failed"
      [] phase = "apply" -> "Terraform apply failed"

\* The first attempt's stderr kept when the phase is retried.
StderrOfFirstAttempt(phase, o) ==
    LET attempts == {i \in DOMAIN cmds : cmds[i].cmd = phase}
    IN  IF attempts = {} THEN CollectedStderr(ToolStderr(o))
        ELSE CollectedStderr(ToolStderr(
                 cmds[CHOOSE i \in attempts : \A j \in attempts : i <= j].out))

\* init_stderr, plan_stderr, apply_stderr when the phase's last attempt
\* ended with outcome o: the retry's assignment replaces the first one.
StderrOfLastAttempt(phase, o) == CollectedStderr(ToolStderr(o))

\* The dict of the error return of a failed init, plan or apply: the error
\* dict with the key "stderr".
PhaseErrorResult(phase, stderr, destroy) ==
    Put(ErrorResult(FailureMessage(phase), phase, destroy), "stderr", stderr)

RetriesEveryFailure(o) == ~ExitZero(o)

\* `returncode != 0 and "lock" in stderr.lower()`: the one condition under
\* which a phase command is run again, with -lock=false.
NeedsLockRetry(o) == ~ExitZero(o) /\ LockInStderr(o)

\* A phase whose last attempt exited non-zero: init and plan return the error,
\* apply goes on to destroy.
PhaseFailed(phase, o) ==
    IF phase = "apply"
    THEN pc' = "destroy" /\ UNCHANGED <<result, taskState>>
    ELSE Return(PhaseErrorResult(phase, StderrOfLastAttempt(phase, o), "none"))

\* The first attempt of a phase command.
PhaseFirst(phase) ==
    /\ pc = phase
    /\ \E o \in CmdOutcomes :
        /\ cmds' = Append(cmds, Cmd(phase, FALSE, o))
        /\ IF o = "raise"
           THEN Return(ErrorResult("unexpected", "none", "none"))
           ELSE IF NeedsLockRetry(o)
           THEN pc' = RetryPc(phase) /\ UNCHANGED <<result, taskState>>
           ELSE IF ~ExitZero(o)
           THEN PhaseFailed(phase, o)
           ELSE pc' = NextPc(phase) /\ UNCHANGED <<result, taskState>>
    /\ UNCHANGED <<settings, fsScenario, cwd, dirs, files, nextId, task, tfPath,
                   tfvarsFile>>
    /\ UNCHANGED storeVars
    /\ UNCHANGED tfvarsVars

\* A retry that is itself retried while its stderr mentions a lock.
PhaseRetryUntilUnlocked(phase) ==
    /\ pc = RetryPc(phase)
    /\ \E o \in RetryOutcomes :
        /\ cmds' = Append(cmds, Cmd(phase, TRUE, o))
        /\ IF o = "raise"
           THEN Return(ErrorResult("unexpected", "none", "none"))
           ELSE IF NeedsLockRetry(o)
           THEN pc' = RetryPc(phase) /\ UNCHANGED <<result, taskState>>
           ELSE IF ~ExitZero(o)
           THEN PhaseFailed(phase, o)
           ELSE pc' = NextPc(phase) /\ UNCHANGED <<result, taskState>>
    /\ UNCHANGED <<settings, fsScenario, cwd, dirs, files, nextId, task, tfPath,
                   tfvarsFile>>
    /\ UNCHANGED storeVars
    /\ UNCHANGED tfvarsVars

\* The retry of a phase command with -lock=false.
PhaseRetry(phase) ==
    /\ pc = RetryPc(phase)
    /\ \E o \in RetryOutcomes :
        /\ cmds' = Append(cmds, Cmd(phase, TRUE, o))
        /\ IF o = "raise"
           THEN Return(ErrorResult("unexpected", "none", "none"))
           ELSE IF ~ExitZero(o)
           THEN PhaseFailed(phase, o)
           ELSE pc' = NextPc(phase) /\ UNCHANGED <<result, taskState>>
    /\ UNCHANGED <<settings, fsScenario, cwd, dirs, files, nextId, task, tfPath,
                   tfvarsFile>>
    /\ UNCHANGED storeVars
    /\ UNCHANGED tfvarsVars

TerraformInit == PhaseFirst("init")

TerraformInitRetry == PhaseRetry("init")

TerraformPlan == PhaseFirst("plan")

TerraformPlanRetry == PhaseRetry("plan")

TerraformApply == PhaseFirst("apply")

TerraformApplyRetry == PhaseRetry("apply")

\* apply_stderr when destroy runs: the stderr of the apply attempt that ran
\* last.
ApplyStderr == StderrOfLastAttempt("apply", cmds[Len(cmds)].out)

\* Lines 359-397 and 450-459: the result after the destroy command.
DestroyResult(o) ==
    IF o = "raise" THEN ErrorResult("unexpected", "none", "none")
    ELSE IF ExitZero(o)
    THEN PhaseErrorResult("apply", ApplyStderr, "success")
    ELSE PhaseErrorResult("apply", ApplyStderr, "failed")

\* Lines 359-397: destroy after a failed apply, run once, then the error.
TerraformDestroy ==
    /\ pc = "destroy"
    /\ \E o \in CmdOutcomes :
        /\ cmds' = Append(cmds, Cmd("destroy", FALSE, o))
        /\ Return(DestroyResult(o))
    /\ UNCHANGED <<settings, fsScenario, cwd, dirs, files, nextId, task, tfPath,
                   tfvarsFile>>
    /\ UNCHANGED storeVars
    /\ UNCHANGED tfvarsVars

\* The output step without the try/except around it: a failure to run or to
\* parse reaches the task's `except Exception`.
TerraformOutputUnguarded ==
    /\ pc = "output"
    /\ \E k \in OutputKinds :
        /\ cmds' = Append(cmds, Cmd("output", FALSE, k))
        /\ IF k \in {"raise", "invalid"}
           THEN Return(ErrorResult("unexpected", "none", "none"))
           ELSE Return(SuccessResult(ParsedOutputs(k),
                           EnrichedCredentials(task.credentials, ParsedOutputs(k))))
    /\ UNCHANGED <<settings, fsScenario, cwd, dirs, files, nextId, task, tfPath,
                   tfvarsFile>>
    /\ UNCHANGED storeVars
    /\ UNCHANGED tfvarsVars

\* Lines 399-448: `terraform output -json`; a failure to run or to parse
\* leaves outputs = {}; then the success result.
TerraformOutput ==
    /\ pc = "output"
    /\ \E k \in OutputKinds :
        /\ cmds' = Append(cmds, Cmd("output", FALSE, k))
        /\ Return(SuccessResult(ParsedOutputs(k),
                                EnrichedCredentials(task.credentials, ParsedOutputs(k))))
    /\ UNCHANGED <<settings, fsScenario, cwd, dirs, files, nextId, task, tfPath,
                   tfvarsFile>>
    /\ UNCHANGED storeVars
    /\ UNCHANGED tfvarsVars

\* ------------------------------------------- TerraformTask: the handlers

\* on_success: cleanup_task_tfvars(task_id), run in the worker process.
OnSuccess ==
    /\ pc = "returned"
    /\ dirs' = CleanupDirs(cwd)
    /\ files' = CleanupFiles(cwd, task.id)
    /\ pc' = "done"
    /\ UNCHANGED <<settings, fsScenario, cwd, nextId, task, taskState, tfPath,
                   tfvarsFile, cmds, result>>
    /\ UNCHANGED storeVars
    /\ UNCHANGED tfvarsVars

\* on_failure: the same cleanup after an exception left the task function.
OnFailure ==
    /\ pc = "raised"
    /\ dirs' = CleanupDirs(cwd)
    /\ files' = CleanupFiles(cwd, task.id)
    /\ pc' = "done"
    /\ UNCHANGED <<settings, fsScenario, cwd, nextId, task, taskState, tfPath,
                   tfvarsFile, cmds, result>>
    /\ UNCHANGED storeVars
    /\ UNCHANGED tfvarsVars

\* ------------------------------------------------ the sequencer's machine

EmptyStore == <<>>

Init ==
    /\ settings \in Deployments
    /\ fsScenario \in FsScenarios
    /\ cwd = StartDir
    /\ dirs = {}
    /\ files = {}
    /\ nextId = 1
    /\ task = NoTask
    /\ taskState = "NONE"
    /\ pc = "idle"
    /\ tfPath = <<>>
    /\ tfvarsFile = Null
    /\ cmds = <<>>
    /\ result = Null
    /\ store = EmptyStore
    /\ storeOps = 0
    /\ resp = Null
    /\ template = DefaultTemplates
    /\ written = Null
    /\ EnvInit

Next ==
    \/ SendTask
    \/ TaskStart
    \/ TaskStartRaises
    \/ CheckPaths
    \/ CreateTfvars
    \/ StateList
    \/ ForceUnlock
    \/ TerraformInit
    \/ TerraformInitRetry
    \/ TerraformPlan
    \/ TerraformPlanRetry
    \/ TerraformApply
    \/ TerraformApplyRetry
    \/ TerraformDestroy
    \/ TerraformOutput
    \/ OnSuccess
    \/ OnFailure

Spec == Init /\ [][Next]_vars

\* ------------------------------------------------ reading the command log

Min(S) == CHOOSE x \in S : \A y \in S : x <= y

Max(S) == CHOOSE x \in S : \A y \in S : x >= y

\* Positions in the log of the attempts of one command.
Idx(name) == {i \in 1..Len(cmds) : cmds[i].cmd = name}

NonZeroExit(o) == o \in {"fail", "fail_lock"}

\* The task function has returned its result.
Finished == pc \in {"returned", "done"} /\ result # Null

Phases == {"init", "plan", "apply"}

LaterCommands(phase) ==
    CASE phase = "init" -> {"plan", "apply", "destroy", "output"}
      [] phase = "plan" -> {"apply", "destroy", "output"}
      [] phase = "apply" -> {"output"}

Rank(name) ==
    CASE name = "state_list" -> 0
      [] name = "force_unlock" -> 1
      [] name = "init" -> 2
      [] name = "plan" -> 3
      [] name = "apply" -> 4
      [] name = "destroy" -> 5
      [] name = "output" -> 5

\* ------------------------------------------------------------------ claims

\* C1: every result run_terraform_commands returns with status "error" has
\* credentials null, whichever step failed (path check, file creation, init,
\* plan, apply, destroy, unexpected exception) and whatever credentials were
\* passed in.
C1_ErrorResultHasNoCredentials ==
    (result # Null /\ result.status = "error") => result.credentials = Null

\* C1 witness: a job sent with the database credentials whose apply failed and
\* whose destroy ran has returned its error result.
C1_Witness ==
    /\ Finished
    /\ task.credentials = PostgresCredentials
    /\ result.status = "error"
    /\ result.phase = "apply"
    /\ Idx("destroy") # {}

\* C2 (as claimed): once the job's sequence has ended and its completion
\* handler (on_success or on_failure) has run, no job-scoped file
\* <module-type>.<job-id>.tfvars of that job is left in the directory
\* create_task_specific_tfvars wrote it to.
C2_NoJobFileAfterHandler ==
    pc = "done" => \A f \in files : f.id # task.id

ApplyEndedNonZero ==
    /\ Idx("apply") # {}
    /\ NonZeroExit(cmds[Max(Idx("apply"))].out)
    /\ pc # "apply_retry"

\* C4 (as claimed): whenever apply ends with a non-zero exit, terraform
\* destroy is run exactly once, with the job's variable file and without a
\* retry, and the returned result is status error with phase "apply" whatever
\* destroy did (zero exit, non-zero exit, or the command failing to run).
C4_DestroyOnceThenApplyError ==
    (Finished /\ ApplyEndedNonZero) =>
        /\ Cardinality(Idx("destroy")) = 1
        /\ cmds[Max(Idx("destroy"))].nolock = FALSE
        /\ result.status = "error"
        /\ result.phase = "apply"

\* C5: within one job the commands run in the order lock cleanup (state list,
\* then force-unlock if any), init, plan, apply, then one of destroy or
\* output: plan starts only after init exited zero, apply only after plan
\* exited zero, output only after apply exited zero, destroy only after apply
\* exited non-zero; destroy and output never both run, and one of them has
\* run by the time a job whose apply exited returns.
C5_PhasesInOrder ==
    /\ \A i, j \in 1..Len(cmds) : i < j => Rank(cmds[i].cmd) <= Rank(cmds[j].cmd)
    /\ Len(cmds) > 0 => cmds[1].cmd = "state_list"
    /\ Cardinality(Idx("state_list")) <= 1
    /\ Idx("plan") # {} =>
           Idx("init") # {} /\ ExitZero(cmds[Max(Idx("init"))].out)
    /\ Idx("apply") # {} =>
           Idx("plan") # {} /\ ExitZero(cmds[Max(Idx("plan"))].out)
    /\ Idx("output") # {} =>
           Idx("apply") # {} /\ ExitZero(cmds[Max(Idx("apply"))].out)
    /\ Idx("destroy") # {} =>
           Idx("apply") # {} /\ NonZeroExit(cmds[Max(Idx("apply"))].out)
    /\ Cardinality(Idx("destroy")) + Cardinality(Idx("output")) <= 1
    /\ (Finished /\ Idx("apply") # {} /\ cmds[Max(Idx("apply"))].out # "raise") =>
           Cardinality(Idx("destroy")) + Cardinality(Idx("output")) = 1

\* C5 witness: a job ran state list, force-unlock, init, plan, apply and
\* output, and returned.
C5_Witness ==
    /\ Finished
    /\ Idx("force_unlock") # {}
    /\ Idx("output") # {}
    /\ Len(cmds) >= 6

\* C10 (as claimed): every result returned with status "success" carries
\* non-null credentials.
C10_SuccessHasCredentials ==
    (result # Null /\ result.status = "success") => result.credentials # Null

\* C10 (amended): a success result carries credentials exactly when the task
\* was sent with credentials: null in, null out; a mapping in, that mapping
\* out, every key kept and every key but port, port_changed and priority
\* with its value, and no key added but those three.  Over all results
\* non-null credentials occur only with status success.
C10_SuccessCarriesGivenCredentials ==
    result # Null =>
        /\ result.credentials # Null => result.status = "success"
        /\ result.status = "success" =>
              /\ (task.credentials = Null) = (result.credentials = Null)
              /\ task.credentials # Null =>
                    /\ DOMAIN task.credentials \subseteq DOMAIN result.credentials
                    /\ DOMAIN result.credentials \subseteq
                           DOMAIN task.credentials \cup PortKeys
                    /\ \A k \in DOMAIN task.credentials \ PortKeys :
                           result.credentials[k] = task.credentials[k]

\* C10 witness: a job enqueued with the database credentials succeeded and
\* returned them.
C10_Witness ==
    /\ Finished
    /\ result.status = "success"
    /\ task.credentials = PostgresCredentials
    /\ result.credentials = PostgresCredentials

\* ===================================================== the Job Store
\* services/terraform_job_store.py.  store maps a job id to its Redis hash
\* job:<id>, a function from field names to the stored strings.  A stored
\* JSON or repr text is the record [enc, val] of its encoding and the value
\* it was made from; datetime.now() is the count of operations so far.

\* TerraformStatus._value2member_map_: the values of the enum.
StatusValues == {"pending", "running", "success", "error"}

TerminalStatuses == {"success", "error"}

NoTime == 0

JobIds == 1..MaxStoreJobs

JobExists(id) == id \in DOMAIN store

Now == storeOps + 1

\* Credentials the v1 create_warehouse endpoint stores for its job.
WarehouseJobCredentials ==
    [ db_name |-> "warehouse_acme", db_user |-> "warehouse_acme",
      db_password |-> "pw-db" ]

Merge(hash, update) ==
    [k \in (DOMAIN hash) \cup (DOMAIN update) |->
        IF k \in DOMAIN update THEN update[k] ELSE hash[k]]

\* update_job's conversion of one keyword argument to the stored string.
EncodeField(key, value) ==
    CASE key = "outputs" -> [enc |-> "json", val |-> value]
      [] key = "credentials" -> [enc |-> "repr", val |-> value]
      [] OTHER -> value

\* update_data that keeps the None values, as the text "None".
UpdateDataKeepingNone(kwargs) ==
    [k \in DOMAIN kwargs |->
        IF kwargs[k] = <<>> THEN "None" ELSE EncodeField(k, kwargs[k][1])]

\* update_job: the update_data built from kwargs; a kwarg is <<value>>, or
\* <<>> for None, which is skipped.
UpdateData(kwargs) ==
    [k \in {x \in DOMAIN kwargs : kwargs[x] # <<>>} |->
        EncodeField(k, kwargs[k][1])]

\* get_job: json.loads of a stored text; text that is not JSON gives {}.
JsonLoads(stored) == IF stored.enc = "json" THEN stored.val ELSE EmptyDict

\* get_job: the stored status as an enum value, ERROR when it is none.
DecodeStatus(stored) == IF stored \in StatusValues THEN stored ELSE "error"

Field(hash, key, default) == IF key \in DOMAIN hash THEN hash[key] ELSE default

\* get_job(job_id): the TerraformResult built from the hash.
GetJob(id) ==
    LET h == store[id] IN
    [ job_id |-> id,
      task_id |-> Field(h, "task_id", NoText),
      status |-> DecodeStatus(h["status"]),
      error |-> Field(h, "error", NoText),
      stderr |-> Field(h, "stderr", NoText),
      created_at |-> Field(h, "created_at", NoTime),
      completed_at |-> Field(h, "completed_at", NoTime),
      outputs |-> IF "outputs" \in DOMAIN h THEN JsonLoads(h["outputs"]) ELSE Null,
      credentials |-> IF "credentials" \in DOMAIN h
                      THEN JsonLoads(h["credentials"]) ELSE Null ]

ViewCredentialsUngated(job) ==
    IF Truthy(job.credentials) THEN job.credentials ELSE Null

\* get_job_status: credentials enter the view only for a SUCCESS job that
\* has some.
ViewCredentials(job) ==
    IF job.status = "success" /\ Truthy(job.credentials)
    THEN job.credentials ELSE Null

\* get_job_status(job_id): the client-facing view of an existing job.
JobStatusView(id) ==
    LET job == GetJob(id) IN
    [ job_id |-> job.job_id,
      task_id |-> job.task_id,
      status |-> job.status,
      error |-> job.error,
      created_at |-> job.created_at,
      completed_at |-> job.completed_at,
      outputs |-> job.outputs,
      credentials |-> ViewCredentials(job) ]

\* The hash after create_job.
NewJobHash(id) == [job_id |-> id, status |-> "pending", created_at |-> Now]

CountOp == storeOps < MaxStoreOps /\ storeOps' = storeOps + 1

\* create_job(): a fresh id and a PENDING record.
CreateJob ==
    /\ CountOp
    /\ \E id \in JobIds :
        /\ ~JobExists(id)
        /\ \A j \in JobIds : j < id => JobExists(j)
        /\ store' = [j \in (DOMAIN store) \cup {id} |->
                        IF j = id THEN NewJobHash(id) ELSE store[j]]
    /\ UNCHANGED resp
    /\ UNCHANGED seqVars
    /\ UNCHANGED tfvarsVars

\* update_job(job_id, **kwargs): on an unknown id it raises ValueError before
\* it writes; else it writes update_data into the hash.
UpdateJobWrites(id, kwargs) ==
    IF JobExists(id)
    THEN store' = [store EXCEPT ![id] = Merge(store[id], UpdateData(kwargs))]
    ELSE UNCHANGED store

\* What update_job(job_id, **kwargs) gives its caller: the ValueError, or the
\* record get_job reads after the write.
UpdateJobReturn(id) ==
    IF JobExists(id) THEN GetJob(id)' ELSE [raises |-> "ValueError"]

\* The keyword arguments callers pass to update_job directly.
UpdateJobInputs ==
    { [task_id |-> <<"task-1">>],
      [status |-> <<"running">>],
      [status |-> <<"SUCCESS">>],
      [status |-> <<"pending">>, error |-> <<>>],
      [credentials |-> <<WarehouseJobCredentials>>],
      [completed_at |-> <<Now>>] }

UpdateJob ==
    /\ CountOp
    /\ \E id \in JobIds, kwargs \in UpdateJobInputs : UpdateJobWrites(id, kwargs)
    /\ UNCHANGED resp
    /\ UNCHANGED seqVars
    /\ UNCHANGED tfvarsVars

\* set_job_running(job_id).
SetJobRunning ==
    /\ CountOp
    /\ \E id \in JobIds : UpdateJobWrites(id, [status |-> <<"running">>])
    /\ UNCHANGED resp
    /\ UNCHANGED seqVars
    /\ UNCHANGED tfvarsVars

\* set_job_success(job_id, init_output, apply_output, outputs).
SetJobSuccess ==
    /\ CountOp
    /\ \E id \in JobIds, outputs \in {EmptyDict, ParsedOutputs("plain")} :
        UpdateJobWrites(id, [ status |-> <<"success">>,
                              init_output |-> <<"init ok">>,
                              apply_output |-> <<"apply ok">>,
                              outputs |-> <<outputs>>,
                              completed_at |-> <<Now>> ])
    /\ UNCHANGED resp
    /\ UNCHANGED seqVars
    /\ UNCHANGED tfvarsVars

\* set_job_error(job_id, error, stderr=None): stderr is written when truthy.
SetJobError ==
    /\ CountOp
    /\ \E id \in JobIds, stderr \in {<<>>, <<"Error: apply">>} :
        UpdateJobWrites(id, [ status |-> <<"error">>,
                              error |-> <<"Terraform apply failed">>,
                              completed_at |-> <<Now>>,
                              stderr |-> stderr ])
    /\ UNCHANGED resp
    /\ UNCHANGED seqVars
    /\ UNCHANGED tfvarsVars

\* store_job_credentials(job_id, credentials): refuses no credentials and an
\* unknown job; else writes the JSON text, whatever the job's status.
StoreJobCredentials ==
    /\ CountOp
    /\ \E id \in JobIds, credentials \in {Null, EmptyDict, WarehouseJobCredentials} :
        IF Truthy(credentials) /\ JobExists(id)
        THEN store' = [store EXCEPT ![id] =
                 Merge(@, [credentials |-> [enc |-> "json", val |-> credentials]])]
        ELSE UNCHANGED store
    /\ UNCHANGED resp
    /\ UNCHANGED seqVars
    /\ UNCHANGED tfvarsVars

\* The v1 endpoint's replacements for the warehouse module.
WarehouseReplacements ==
    [ APP_DB_NAME |-> "warehouse_acme", APP_DB_USER |-> "warehouse_acme",
      APP_DB_PASS |-> "pw-db" ]

\* The pattern ^(key\s*=\s*)"[^"]*"(.*)$ with re.MULTILINE: a line that
\* starts with the key and assigns it a double-quoted string.
OrgSlugMatches(key, line) ==
    /\ line.eq
    /\ Len(line.pre) >= 1
    /\ line.pre[1] = key
    /\ \A i \in 2..Len(line.pre) : IsSpace(line.pre[i])
    /\ LET v == LStrip(line.post)
       IN  Len(v) >= 3 /\ v[1] = "\"" /\ v[3] = "\""

\* The replacement \1"{value}"\2: the quoted string is exchanged, what
\* precedes and follows it on the line stays.
OrgSlugLine(line, replacements) ==
    LET keys == {k \in DOMAIN replacements : OrgSlugMatches(k, line)}
        v == LStrip(line.post)
        lead == SubSeq(line.post, 1, Len(line.post) - Len(v))
    IN  IF keys = {} THEN line
        ELSE Line(line.pre, TRUE,
                  lead \o Quoted(replacements[CHOOSE k \in keys : TRUE])
                       \o SubSeq(v, 4, Len(v)))

\* update_tfvars_with_org_slug: the content it writes back to file_path.
update_tfvars_with_org_slug(file, replacements) ==
    LET content == ReadText(file)
    IN  [content EXCEPT !.lines = [i \in 1..Len(content.lines) |->
                                      OrgSlugLine(content.lines[i], replacements)]]

\* api/v1/endpoints/terraform.py create_warehouse: the module's
\* terraform.tfvars must exist and is rewritten in place with the request's
\* values; then create_job, store_job_credentials, update_job(task_id=...),
\* and the response get_job_status(job_id).
CreateWarehouse ==
    /\ CountOp
    /\ AbsPath(StartDir, settings.wh) \in TfvarsDirs
    /\ template' = [template EXCEPT !.warehouse =
                        update_tfvars_with_org_slug(template.warehouse,
                                                    WarehouseReplacements)]
    /\ \E id \in JobIds :
        /\ ~JobExists(id)
        /\ \A j \in JobIds : j < id => JobExists(j)
        /\ store' = [j \in (DOMAIN store) \cup {id} |->
                        IF j = id
                        THEN Merge(NewJobHash(id),
                                   [ credentials |-> [enc |-> "json",
                                                      val |-> WarehouseJobCredentials],
                                     task_id |-> "task-1" ])
                        ELSE store[j]]
        /\ resp' = Response("create_warehouse", JobStatusView(id)')
    /\ UNCHANGED seqVars
    /\ UNCHANGED <<written, expiryVars, pipeVars, lockVars>>

\* api/v1/endpoints/terraform.py get_task_info: GET /status/{job_id} answers
\* get_job_status(job_id), or 404.
GetTaskInfo ==
    /\ \E id \in JobIds :
        resp' = IF JobExists(id) THEN Response("get_task_info", JobStatusView(id))
                ELSE NotFound
    /\ UNCHANGED <<store, storeOps>>
    /\ UNCHANGED seqVars
    /\ UNCHANGED tfvarsVars

\* api/v1/terraform.py get_job_status: GET /status/{job_id} answers the
\* record get_job(job_id) itself, or 404.
GetJobStatusV1 ==
    /\ \E id \in JobIds :
        resp' = IF JobExists(id) THEN Response("get_job_status", GetJob(id))
                ELSE NotFound
    /\ UNCHANGED <<store, storeOps>>
    /\ UNCHANGED seqVars
    /\ UNCHANGED tfvarsVars

StoreNext ==
    \/ CreateJob
    \/ UpdateJob
    \/ SetJobRunning
    \/ SetJobSuccess
    \/ SetJobError
    \/ StoreJobCredentials
    \/ CreateWarehouse
    \/ GetTaskInfo
    \/ GetJobStatusV1

StoreInit ==
    /\ Init
    /\ settings = DefaultSettings
    /\ fsScenario = "intact"

StoreSpec == StoreInit /\ [][StoreNext]_vars

\* --------------------------------------------------- claims on the Job Store

\* C6 (as claimed): once a job's status is terminal (SUCCESS or ERROR),
\* no later Job Store operation changes its status or its completed_at.
C6_TerminalRecordIsFinal ==
    [][ \A id \in DOMAIN store :
            GetJob(id).status \in TerminalStatuses =>
                /\ GetJob(id)'.status = GetJob(id).status
                /\ GetJob(id)'.completed_at = GetJob(id).completed_at ]_vars

\* C7: whatever Job Store operations ran, the view get_job_status builds has
\* credentials only when the record's status is SUCCESS, also for a record
\* that holds credentials: in every response built from it, and for every
\* record of every reachable store.
C7_ViewCredentialsOnlyOnSuccess ==
    /\ (resp # Null /\ resp.endpoint \in {"get_task_info", "create_warehouse"}) =>
           (resp.body.credentials # Null => resp.body.status = "success")
    /\ \A id \in DOMAIN store :
           JobStatusView(id).credentials # Null =>
               /\ GetJob(id).status = "success"
               /\ JobStatusView(id).credentials = GetJob(id).credentials

\* C7 witness: a record that holds credentials and has status ERROR was read
\* through get_job_status, and the view came back without credentials.
C7_Witness ==
    \E id \in DOMAIN store :
        /\ "credentials" \in DOMAIN store[id]
        /\ Truthy(GetJob(id).credentials)
        /\ GetJob(id).status = "error"
        /\ resp = Response("get_task_info", JobStatusView(id))
        /\ resp.body.credentials = Null

\* C8 (as claimed): a response of a status endpoint carries credentials only
\* when the status it reports is SUCCESS.
C8_StatusResponseCredentialsOnlyOnSuccess ==
    (resp # Null /\ resp.endpoint \in {"get_task_info", "get_job_status"}) =>
        (Truthy(resp.body.credentials) => resp.body.status = "success")

\* C9 (as claimed): in every state of the Job Store a record that has
\* credentials stored has status SUCCESS.
C9_StoredCredentialsImplySuccess ==
    \A id \in DOMAIN store :
        "credentials" \in DOMAIN store[id] => GetJob(id).status = "success"

\* ============================================ the task status endpoint
\* api/routes.py: GET /api/task/{task_id}.  The Celery result backend holds,
\* per task id, a state and a result; taskState and result are its entry for
\* the task the worker last received.

\* celery.states, and a state name Celery does not define.
CeleryStates ==
    {"PENDING", "RECEIVED", "STARTED", "RETRY", "SUCCESS", "FAILURE", "REVOKED",
     "REJECTED", "IGNORED", "PROGRESS"}

CELERY_TERMINAL_STATES == {"SUCCESS", "FAILURE", "REVOKED", "REJECTED", "IGNORED"}

CELERY_ERROR_STATES == {"FAILURE", "REVOKED", "REJECTED"}

UnknownStateAsPending(celery_status) ==
    IF celery_status = "SUCCESS" THEN "success"
    ELSE IF celery_status \in CELERY_ERROR_STATES THEN "error"
    ELSE IF celery_status \in CELERY_TERMINAL_STATES THEN "error"
    ELSE IF celery_status \in {"STARTED", "RETRY"} THEN "running"
    ELSE "pending"

\* celery_status_to_terraform_status, branch by branch.
celery_status_to_terraform_status(celery_status) ==
    IF celery_status = "SUCCESS" THEN "success"
    ELSE IF celery_status \in CELERY_ERROR_STATES THEN "error"
    ELSE IF celery_status \in CELERY_TERMINAL_STATES THEN "error"
    ELSE IF celery_status \in {"PENDING", "RECEIVED"} THEN "pending"
    ELSE IF celery_status \in {"STARTED", "RETRY"} THEN "running"
    ELSE "error"

\* isinstance(result, dict): the task's return value, not None, not an
\* exception, not a backend read that raises.
IsDict(payload) == payload # Null /\ "status" \in DOMAIN payload

IsException(payload) == payload # Null /\ "exception" \in DOMAIN payload

ReadRaises(payload) == payload # Null /\ "raises" \in DOMAIN payload

\* Truthiness of an optional string: None and "" are falsy.
TruthyText(s) == s # NoText /\ s # ""

\* str(task_result.result) of a truthy result.
StrOfResult(payload) ==
    IF IsException(payload) THEN payload.exception ELSE "repr of the result dict"

\* The error message get_task_status derives from the backend state alone.
StateError(celery_status) ==
    CASE celery_status = "REVOKED" -> "Task was cancelled or revoked"
      [] celery_status = "REJECTED" -> "Task was rejected by worker"
      [] celery_status = "IGNORED" -> "Task was ignored by worker"
      [] OTHER -> NoText

PayloadBranchIgnoresErrors(celery_status, payload) ==
    IF ~(celery_status \in CELERY_TERMINAL_STATES /\ IsDict(payload)) THEN "none"
    ELSE IF celery_status_to_terraform_status(celery_status) = "success" THEN "data"
    ELSE "none"

\* Which branch of the `isinstance(result, dict)` block a terminal task takes.
PayloadBranch(celery_status, payload) ==
    IF ~(celery_status \in CELERY_TERMINAL_STATES /\ IsDict(payload)) THEN "none"
    ELSE IF TruthyText(payload.error) THEN "error_field"
    ELSE IF payload.status = "error" THEN "error_status"
    ELSE IF celery_status_to_terraform_status(celery_status) = "success" THEN "data"
    ELSE "none"

\* A result that passes the outputs on and leaves the credentials out.
ResultDataOutputsOnly(payload) ==
    IF Truthy(payload.outputs) THEN [outputs |-> payload.outputs] ELSE Null

\* result_data of the success branch: outputs and credentials, each under its
\* own key when truthy; None when neither is.
ResultData(payload) ==
    LET keys == {k \in {"outputs", "credentials"} : Truthy(payload[k])}
    IN  IF keys = {} THEN Null ELSE [k \in keys |-> payload[k]]

\* The body of get_task_status's response for a task id whose backend entry
\* is (celery_status, payload).
TaskStatusResponse(id, celery_status, payload) ==
    LET terminal == celery_status \in CELERY_TERMINAL_STATES
        raised == terminal /\ ReadRaises(payload)
        branch == PayloadBranch(celery_status, payload)
        declared == branch \in {"error_field", "error_status"}
        status == IF raised \/ declared THEN "error"
                  ELSE celery_status_to_terraform_status(celery_status)
        error1 == IF raised THEN payload.raises
                  ELSE IF declared THEN payload.error
                  ELSE StateError(celery_status)
        error == IF celery_status = "FAILURE" /\ ~TruthyText(error1)
                 THEN IF payload # Null THEN StrOfResult(payload) ELSE "Task failed"
                 ELSE error1
    IN  [ id |-> id,
          status |-> status,
          result |-> IF branch = "data" THEN ResultData(payload) ELSE Null,
          error |-> error ]

\* AsyncResult(task_id): the backend's entry for an id.  An id the backend
\* has no entry for reads as state PENDING with result None.
BackendState(id) == IF id = task.id THEN taskState ELSE "PENDING"

BackendResult(id) == IF id = task.id THEN result ELSE Null

\* Ids a client polls: the id of the current task and one never handed out.
PollIds == {i \in {task.id, nextId} : i >= 1}

\* get_task_status(task_id): 404 when the AsyncResult has no id, else the
\* response built from the backend's entry.
GetTaskStatus ==
    /\ \E id \in PollIds :
        resp' = IF id = 0 THEN NotFound
                ELSE Response("get_task_status",
                              TaskStatusResponse(id, BackendState(id), BackendResult(id)))
    /\ UNCHANGED <<store, storeOps>>
    /\ UNCHANGED seqVars
    /\ UNCHANGED tfvarsVars

\* ---------------------------------- the status endpoint over backend entries

\* Results the backend can hold for a task: what run_terraform_commands
\* returns, dicts of the shapes the unit tests feed the endpoint, None, an
\* exception (state FAILURE, REVOKED), and an entry whose read raises.
BackendPayloads ==
    { Null,
      SuccessResult(ParsedOutputs("plain"), PostgresCredentials),
      SuccessResult(ParsedOutputs("plain"), Null),
      SuccessResult(EmptyDict, SupersetCredentials),
      SuccessResult(EmptyDict, EmptyDict),
      ErrorResult("Terraform apply failed", "apply", "failed"),
      ErrorResult("", "plan", "none"),
      ErrorResult(NoText, "none", "none"),
      [SuccessResult(ParsedOutputs("plain"), PostgresCredentials)
           EXCEPT !.error = "Failed to create Superset instance"],
      [ErrorResult("Failed to create Superset instance", "apply", "none")
           EXCEPT !.status = "ERROR"],
      [exception |-> "worker lost"],
      [raises |-> "backend unreachable"] }

PolledTask ==
    [ id |-> 1, terraform_path |-> DefaultSettings.wh,
      credentials |-> PostgresCredentials, replacements |-> PostgresReplacements ]

StatusInit ==
    /\ settings = DefaultSettings
    /\ fsScenario = "intact"
    /\ cwd = StartDir
    /\ dirs = {}
    /\ files = {}
    /\ nextId = 2
    /\ task = PolledTask
    /\ taskState \in CeleryStates
    /\ pc = "done"
    /\ tfPath = <<>>
    /\ tfvarsFile = Null
    /\ cmds = <<>>
    /\ result \in BackendPayloads
    /\ store = EmptyStore
    /\ storeOps = 0
    /\ resp = Null
    /\ template = DefaultTemplates
    /\ written = Null
    /\ EnvInit

StatusNext == GetTaskStatus

StatusSpec == StatusInit /\ [][StatusNext]_vars

\* C11: celery_status_to_terraform_status is defined on every backend state:
\* PENDING and RECEIVED give PENDING, STARTED and RETRY give RUNNING, SUCCESS
\* gives SUCCESS, FAILURE, REVOKED, REJECTED and IGNORED give ERROR, and any
\* other value gives ERROR, never PENDING or RUNNING; every response the
\* endpoint builds for a backend entry that declares nothing reports exactly
\* that status.
C11_StatusMappingTotal ==
    /\ \A s \in CeleryStates :
        celery_status_to_terraform_status(s) =
            CASE s \in {"PENDING", "RECEIVED"} -> "pending"
              [] s \in {"STARTED", "RETRY"} -> "running"
              [] s = "SUCCESS" -> "success"
              [] OTHER -> "error"
    /\ (resp # Null /\ resp.endpoint = "get_task_status" /\ resp.body.id = task.id) =>
        /\ resp.body.status \in StatusValues
        /\ taskState \notin {"PENDING", "RECEIVED", "STARTED", "RETRY", "SUCCESS"} =>
               resp.body.status = "error"
        /\ resp.body.status \in {"pending", "running"} =>
               taskState \in {"PENDING", "RECEIVED", "STARTED", "RETRY"}

\* C11 witness: a task whose backend state is a name Celery does not define
\* was polled and reported as ERROR.
C11_Witness ==
    /\ taskState = "PROGRESS"
    /\ resp = Response("get_task_status", TaskStatusResponse(task.id, taskState, result))
    /\ resp.body.status = "error"

\* The polled task is in a terminal backend state and its result payload
\* declares an error: a non-empty error field, or status "error".
PayloadDeclaresError ==
    /\ taskState \in CELERY_TERMINAL_STATES
    /\ IsDict(result)
    /\ (TruthyText(result.error) \/ result.status = "error")

PolledCurrentTask ==
    /\ resp # Null
    /\ resp.endpoint = "get_task_status"
    /\ resp.body.id = task.id

C13_UnknownIdIsNotFound ==
    (resp # Null /\ resp.code = 200) =>
        /\ resp.endpoint = "get_task_status" => resp.body.id < nextId
        /\ resp.endpoint \in {"get_task_info", "get_job_status"} =>
               resp.body.job_id \in DOMAIN store

\* C19 (as claimed): for a task in backend state SUCCESS whose payload has
\* outputs and credentials and declares no error, the response has status
\* SUCCESS, error null, and a result that is one flat mapping holding every
\* output key and every credential key with its value.
C19_SuccessResultIsFlat ==
    ( /\ PolledCurrentTask
      /\ taskState = "SUCCESS"
      /\ IsDict(result)
      /\ ~PayloadDeclaresError
      /\ Truthy(result.outputs)
      /\ Truthy(result.credentials) ) =>
        /\ resp.body.status = "success"
        /\ resp.body.error = NoText
        /\ resp.body.result = Merge(result.outputs, result.credentials)

\* ------------------------------------ create_task_specific_tfvars on its own

\* A worker about to create the job-scoped file of a database job, for every
\* template of up to MaxLines lines and every kind of replacements.
TfvarsInit ==
    /\ settings = DefaultSettings
    /\ fsScenario = "intact"
    /\ cwd = StartDir
    /\ dirs = {AbsPath(StartDir, DefaultSettings.tc)}
    /\ files = {}
    /\ nextId = 2
    /\ \E r \in ReplacementInputs :
           task = [ id |-> 1, terraform_path |-> DefaultSettings.wh,
                    credentials |-> PostgresCredentials, replacements |-> r ]
    /\ taskState = "STARTED"
    /\ pc = "create_tfvars"
    /\ tfPath = AbsPath(StartDir, DefaultSettings.wh)
    /\ tfvarsFile = Null
    /\ cmds = <<>>
    /\ result = Null
    /\ store = EmptyStore
    /\ storeOps = 0
    /\ resp = Null
    /\ \E f \in TemplateFiles :
           template = [DefaultTemplates EXCEPT !.warehouse = f]
    /\ written = Null
    /\ EnvInit

TfvarsNext == CreateTfvars

TfvarsSpec == TfvarsInit /\ [][TfvarsNext]_vars

\* The identifier a template line assigns, "" when it assigns none.
AssignedKey(line) ==
    CASE line = StringLine -> "APP_DB_NAME"
      [] line = IndentedLine -> "APP_DB_USER"
      [] line = NumberLine -> "CONTAINER_PORT"
      [] line = BoolLine -> "bool_key"
      [] OTHER -> ""

\* The text the templater is to put after "= " for a replacement value.
ExpectedText(value) ==
    CASE value = StrValue("orders") -> <<"\"", "orders", "\"">>
      [] value = StrValue("orders_user") -> <<"\"", "orders_user", "\"">>
      [] value = StrValue("superset_acme") -> <<"\"", "superset_acme", "\"">>
      [] value = StrValue("8088") -> <<"8088">>
      [] value = IntValue("456") -> <<"456">>
      [] value = BoolValue(FALSE) -> <<"false">>
      [] value = StrValue("\"orders\"") -> <<"\"", "\"orders\"", "\"">>

\* Line i of the job-scoped file is the template's line i, or, when that line
\* assigns a replaced key, its text up to "=" followed by " <formatted value>".
LinesAsReplaced ==
    /\ Len(written.lines) = Len(template.warehouse.lines)
    /\ \A i \in 1..Len(template.warehouse.lines) :
        LET line == template.warehouse.lines[i]
        IN  IF AssignedKey(line) \in DOMAIN task.replacements
            THEN written.lines[i] =
                    [ pre |-> line.pre, eq |-> TRUE,
                      post |-> <<" ">> \o ExpectedText(task.replacements[AssignedKey(line)]) ]
            ELSE written.lines[i] = line

WroteWithReplacements == pc = "state_list" /\ Truthy(task.replacements)

C14_TemplateNeverWritten == [][template' = template]_vars

\* ------------------------------------------------ claims on the requests

ConfiguredJobFiles(id) ==
    { TfvarsFileAt(AbsPath(StartDir, settings.tc), t, id) :
        t \in {"warehouse", "superset"} }

\* The handler's call of cleanup_task_tfvars(task_id).
CleanupStep == pc \in {"returned", "raised"} /\ pc' = "done"

\* C20: cleanup_task_tfvars(id) removes exactly warehouse.<id>.tfvars and
\* superset.<id>.tfvars of the configured task-configs directory: the files
\* left are the files before the call without those two.
C20_CleanupRemovesConfiguredJobFiles ==
    [][CleanupStep => files' = files \ ConfiguredJobFiles(task.id)]_vars

\* ------------------------------------- enqueue, run, poll: the served path

\* The steps of the worker on the task it holds.
WorkerNext ==
    \/ TaskStart
    \/ TaskStartRaises
    \/ CheckPaths
    \/ CreateTfvars
    \/ StateList
    \/ ForceUnlock
    \/ TerraformInit
    \/ TerraformInitRetry
    \/ TerraformPlan
    \/ TerraformPlanRetry
    \/ TerraformApply
    \/ TerraformApplyRetry
    \/ TerraformDestroy
    \/ TerraformOutput
    \/ OnSuccess
    \/ OnFailure

\* The default deployment, with its module directories in place or with the
\* templates missing.
PollInit ==
    /\ Init
    /\ settings = DefaultSettings
    /\ fsScenario \in {"intact", "no_tfvars"}

\* Clients post provisioning requests and poll the status endpoint while the
\* worker runs the jobs.
PollNext ==
    \/ CreatePostgresDb
    \/ CreateSuperset
    \/ WorkerNext
    \/ GetTaskStatus

PollSpec == PollInit /\ [][PollNext]_vars

\* A step in which the status endpoint answers a poll of the current task.
PollOfCurrentTask ==
    /\ UNCHANGED seqVars
    /\ resp'.code = 200
    /\ resp'.endpoint = "get_task_status"
    /\ resp'.body.id = task.id

PollTask ==
    /\ GetTaskStatus
    /\ resp'.code = 200
    /\ resp'.body.id = task.id

\* The worker goes on with the task it holds (Celery runs an accepted task to
\* its end, every external command returns), and the client of a job keeps
\* polling its id.
FairPollSpec == PollSpec /\ WF_vars(WorkerNext) /\ WF_vars(PollTask)

\* The last attempt of a phase command exited with code zero.
PhaseSucceeded(phase) ==
    /\ Idx(phase) # {}
    /\ ExitZero(cmds[Max(Idx(phase))].out)

\* What `terraform output -json` reported to the finished job.
ReportedOutputs == ParsedOutputs(cmds[Max(Idx("output"))].out)

\* Job id is a database job that has returned after init, plan and apply
\* succeeded and the tool printed its outputs as JSON.
DbJobSucceeded(id) ==
    /\ task.id = id
    /\ task.credentials = PostgresCredentials
    /\ pc \in {"returned", "done"}
    /\ \A phase \in Phases : PhaseSucceeded(phase)
    /\ Idx("output") # {}
    /\ cmds[Max(Idx("output"))].out \in {"empty", "plain", "port_changed", "port_same"}

\* The last response is a poll of job id with status SUCCESS and the user
\* "<dbname>_user" in its credentials.
PolledSuccess(id) ==
    /\ task.id = id
    /\ PolledCurrentTask
    /\ resp.body.status = "success"
    /\ resp.body.error = NoText
    /\ resp.body.result # Null
    /\ "credentials" \in DOMAIN resp.body.result
    /\ {"dbname", "user"} \subseteq DOMAIN resp.body.result.credentials
    /\ resp.body.result.credentials.dbname = "orders"
    /\ resp.body.result.credentials.user = "orders_user"
    /\ Idx("output") # {}

\* The backend entry of an id is kept in the model while the id is the latest
\* task's.
Superseded(id) == task.id # id

ProvisioningEndpoints ==
    { [name |-> "create_postgres_db", path |-> settings.wh],
      [name |-> "create_superset", path |-> settings.ss] }

\* C21: while the canonical terraform.tfvars of a module is missing, every
\* answer of that module's provisioning endpoint is an error response (500)
\* whose detail carries "Terraform vars file not found", and no task for that
\* module is ever enqueued: no id is handed out and the worker stays idle.
C21_MissingTfvarsRefused ==
    \A e \in ProvisioningEndpoints :
        AbsPath(StartDir, e.path) \notin TfvarsDirs =>
            /\ task.terraform_path # e.path
            /\ (resp # Null /\ resp.endpoint = e.name) =>
                   /\ resp.code = 500
                   /\ \E i \in DOMAIN resp.detail : resp.detail[i] = TfvarsNotFound
            /\ nextId = 1
            /\ pc = "idle"

C21_Witness ==
    /\ AbsPath(StartDir, settings.wh) \notin TfvarsDirs
    /\ resp # Null
    /\ resp.endpoint = "create_postgres_db"
    /\ resp.code = 500
    /\ resp.detail = <<"404", TfvarsNotFound>>
    /\ task = NoTask

\* ------------------------------------------------ core/auth.py: the API key

\* settings.API_KEY.
API_KEY == "development_api_key"

\* Values of the X-API-Key header: absent (APIKeyHeader with auto_error=False
\* gives None), empty, a wrong key, the configured key.
ApiKeyHeaders == {NoText, "", "wrong_key", API_KEY}

is_valid_api_key(key) == key = API_KEY

\* A check that lets a request without the header through.
get_api_key_optional(api_key_header) ==
    api_key_header = NoText \/ is_valid_api_key(api_key_header)

\* get_api_key: TRUE when the key is returned, FALSE when 401 is raised.
get_api_key(api_key_header) ==
    /\ api_key_header # NoText
    /\ api_key_header # ""
    /\ is_valid_api_key(api_key_header)

\* The HTTPException of get_api_key as the response of the endpoint.
Unauthorized(endpoint) ==
    [ code |-> 401, endpoint |-> endpoint, body |-> Null,
      detail |-> <<"Invalid API Key">> ]

\* A request stopped by the router's dependency: the handler is not called.
Deny(endpoint) ==
    /\ resp' = Unauthorized(endpoint)
    /\ UNCHANGED seqVars
    /\ UNCHANGED <<store, storeOps>>
    /\ UNCHANGED tfvarsVars

\* infra_router and task_router, dependencies=[Depends(get_api_key)]: the
\* routes behind the key check.
PostgresDbRequest(key) ==
    IF get_api_key(key) THEN CreatePostgresDb ELSE Deny("create_postgres_db")

SupersetRequest(key) ==
    IF get_api_key(key) THEN CreateSuperset ELSE Deny("create_superset")

TaskStatusRequest(key) ==
    IF get_api_key(key) THEN GetTaskStatus ELSE Deny("get_task_status")

PostPostgresDb == \E key \in ApiKeyHeaders : PostgresDbRequest(key)

PostSuperset == \E key \in ApiKeyHeaders : SupersetRequest(key)

GetTask == \E key \in ApiKeyHeaders : TaskStatusRequest(key)

\* The mounted application: clients send requests with any key header while
\* the worker runs the jobs.
ApiNext ==
    \/ PostPostgresDb
    \/ PostSuperset
    \/ GetTask
    \/ WorkerNext

ApiSpec == PollInit /\ [][ApiNext]_vars

\* C22: a provisioning or status request whose X-API-Key header is absent,
\* empty or not the configured key is answered 401 "Invalid API Key", and the
\* step leaves the queue, the task, the worker, the backend's entry and the
\* job records as they were; the answer carries no body.
C22_BadKeyIs401AndTouchesNothing ==
    [][ \A key \in ApiKeyHeaders \ {API_KEY} :
          (PostgresDbRequest(key) \/ SupersetRequest(key) \/ TaskStatusRequest(key)) =>
              /\ resp'.code = 401
              /\ resp'.detail = <<"Invalid API Key">>
              /\ resp'.body = Null
              /\ UNCHANGED <<nextId, task, taskState, pc, result, cmds>>
              /\ UNCHANGED <<store, storeOps>> ]_vars

\* A job has succeeded and a status request without a valid key was refused.
C22_Witness ==
    /\ resp # Null
    /\ resp.code = 401
    /\ resp.endpoint = "get_task_status"
    /\ taskState = "SUCCESS"
    /\ result # Null
    /\ result.status = "success"

\* ------------------------------------------------ claims on the error results

\* The last attempt of a phase's command exited non-zero and no retry of it
\* is pending.
PhaseEndedNonZero(phase) ==
    /\ Idx(phase) # {}
    /\ NonZeroExit(cmds[Max(Idx(phase))].out)
    /\ pc # RetryPc(phase)

\* An error result that names a phase.
PhaseErrorReturned ==
    /\ Finished
    /\ result.status = "error"
    /\ result.phase \in Phases

ModuleIncomplete ==
    /\ tfPath # <<>>
    /\ \/ tfPath \notin ModuleDirs
       \/ tfPath \notin MainTfDirs
       \/ tfPath \notin TfvarsDirs

\* C24: a job whose resolved module directory, main.tf or canonical
\* terraform.tfvars is missing never runs a terraform command (state list,
\* force-unlock, init, plan, apply, destroy, output): it stops in the checks,
\* and the result it returns is status error with null credentials.
C24_IncompleteModuleRunsNothing ==
    ModuleIncomplete =>
        /\ cmds = <<>>
        /\ pc \in {"check_paths", "create_tfvars", "returned", "done"}
        /\ pc \in {"returned", "done"} =>
               /\ result # Null
               /\ result.status = "error"
               /\ result.credentials = Null

\* A job given credentials found the canonical terraform.tfvars missing after
\* the directory and main.tf checks passed.
C24_Witness ==
    /\ ModuleIncomplete
    /\ tfPath \in MainTfDirs
    /\ tfPath \notin TfvarsDirs
    /\ Truthy(task.credentials)
    /\ pc = "done"
    /\ result.status = "error"
    /\ result.error = "unexpected"
    /\ cmds = <<>>

\* ------------------------------------------------ claims on the lock cleanup

\* Positions in the log of the lock-cleanup commands.
CleanupIdx == Idx("state_list") \cup Idx("force_unlock")

\* C25: whatever state list and force-unlock do (any stderr, any exit code,
\* failing to run), the command after the lock cleanup is `terraform init`
\* with locking on: once the cleanup is over the worker is at init or init is
\* the next entry of the log.  force-unlock runs at most once per job, and
\* only right after a state list whose stderr carries a lock id.
C25_InitFollowsLockCleanup ==
    /\ Cardinality(Idx("force_unlock")) <= 1
    /\ \A i \in Idx("force_unlock") :
        /\ i = 2
        /\ cmds[1].cmd = "state_list"
        /\ cmds[1].out = "lock_id"
    /\ pc = "force_unlock" => (Len(cmds) = 1 /\ cmds[1].out = "lock_id")
    /\ (CleanupIdx # {} /\ pc # "force_unlock") =>
        IF Len(cmds) = Max(CleanupIdx) THEN pc = "init"
        ELSE /\ cmds[Max(CleanupIdx) + 1].cmd = "init"
             /\ cmds[Max(CleanupIdx) + 1].nolock = FALSE

\* state list found a lock id, force-unlock could not be run, and init ran.
C25_Witness ==
    /\ Len(cmds) >= 3
    /\ cmds[1] = Cmd("state_list", FALSE, "lock_id")
    /\ cmds[2] = Cmd("force_unlock", FALSE, "raise")
    /\ cmds[3].cmd = "init"

\* -------------------------------------- module paths and module-type tags

\* A deployment checked out in a directory named after the Superset stack.
SupersetStackSettings ==
    [ wh |-> <<"/", "srv", "superset_stack", "terraform_files", "createWarehouse">>,
      ss |-> <<"/", "srv", "superset_stack", "terraform_files", "createSuperset">>,
      tc |-> <<"/", "srv", "superset_stack", "terraform_files", "temp_task_configs">> ]

NamingDeployments == {DefaultSettings, SupersetStackSettings}

\* A Superset module path of a checkout that is gone, in a directory named
\* after the warehouse service.
MovedSupersetPath == <<"/", "opt", "warehouse_service", "createSuperset">>

MissingSupersetPath == <<"missing", "createSuperset">>

\* Module paths a sender gives: the configured ones and paths not on disk.
NamingPaths ==
    { settings.wh, settings.ss, MissingWarehousePath, MissingSupersetPath,
      MovedSupersetPath }

\* run_terraform_commands, lines 157-181: the module type the sequencer
\* derives, from the directory name first and from the full path otherwise.
module_type(terraform_path) ==
    LET module_dir_name == BaseName(terraform_path)
    IN  IF HasCreateSuperset(module_dir_name) \/ HasSupersetLower(module_dir_name)
        THEN "superset"
        ELSE IF HasCreateWarehouse(module_dir_name)
                \/ HasWarehouseLower(module_dir_name)
        THEN "warehouse"
        ELSE IF PathHasCreateSuperset(terraform_path)
                \/ PathHasSupersetLower(terraform_path)
        THEN "superset"
        ELSE IF PathHasCreateWarehouse(terraform_path)
                \/ PathHasWarehouseLower(terraform_path)
        THEN "warehouse"
        ELSE "superset"

SendNamedTask ==
    /\ \E p \in NamingPaths, c \in {PostgresCredentials, SupersetCredentials} :
           ApplyAsync(p, c, Null)
    /\ UNCHANGED resp

NamingInit ==
    /\ settings \in NamingDeployments
    /\ fsScenario \in {"intact", "no_dir"}
    /\ cwd = StartDir
    /\ dirs = {}
    /\ files = {}
    /\ nextId = 1
    /\ task = NoTask
    /\ taskState = "NONE"
    /\ pc = "idle"
    /\ tfPath = <<>>
    /\ tfvarsFile = Null
    /\ cmds = <<>>
    /\ result = Null
    /\ store = EmptyStore
    /\ storeOps = 0
    /\ resp = Null
    /\ template = DefaultTemplates
    /\ written = Null
    /\ EnvInit

\* A task is sent and the worker takes it up to the written job-scoped file.
NamingNext ==
    \/ SendNamedTask
    \/ TaskStart
    \/ CheckPaths
    \/ CreateTfvars

NamingSpec == NamingInit /\ [][NamingNext]_vars

\* The worker has resolved a supplied module path that is not on disk.
ResolvedMissingPath ==
    /\ pc = "check_paths"
    /\ ~PathExists(cwd, task.terraform_path)

\* C26: when the supplied module path does not exist, the path the sequencer
\* goes on with is the configured default of the supplied path's module type:
\* the warehouse default for a path to a createWarehouse directory and the
\* Superset default for a path to a createSuperset directory, whatever the
\* parent directories are called.
C26_FallbackKeepsModuleType ==
    ResolvedMissingPath =>
        /\ BaseName(task.terraform_path) = "createWarehouse" =>
               tfPath = AbsPath(cwd, settings.wh)
        /\ BaseName(task.terraform_path) = "createSuperset" =>
               tfPath = AbsPath(cwd, settings.ss)

\* The job-scoped file of the current job has been written.
JobFileWritten ==
    /\ tfvarsFile # Null
    /\ tfvarsFile \in files

\* C29: the module-type tag in the job-scoped file name is decided by the
\* module directory's basename whenever it identifies a type: the file of a
\* createWarehouse module is tagged warehouse and that of a createSuperset
\* module is tagged superset, whatever the parent directories are called, and
\* the tag is the module type the sequencer derived for the same path.
C29_TagFollowsBasename ==
    JobFileWritten =>
        /\ BaseName(tfPath) = "createWarehouse" => tfvarsFile.type = "warehouse"
        /\ BaseName(tfPath) = "createSuperset" => tfvarsFile.type = "superset"
        /\ tfvarsFile.type = module_type(tfPath)

\* ------------------------------------------------ claims on the success path

\* The last attempt of apply exited zero.
ApplyExitedZero ==
    /\ Idx("apply") # {}
    /\ ExitZero(cmds[Max(Idx("apply"))].out)

\* C27: a job whose apply exited zero always returns status success, whatever
\* `terraform output -json` does; when the command cannot be run, exits
\* non-zero, or prints nothing or something that is not JSON, the result's
\* outputs are the empty mapping, and no error result is returned.
C27_OutputNeverFailsTheJob ==
    /\ (Finished /\ ApplyExitedZero) =>
        /\ result.status = "success"
        /\ Cardinality(Idx("output")) = 1
        /\ cmds[Max(Idx("output"))].out \in {"raise", "failed", "empty", "invalid"} =>
               result.outputs = EmptyDict
    /\ ApplyExitedZero => pc \in {"output", "returned", "done"}

\* apply succeeded on its retry, the output command could not be run, and the
\* job returned success with no outputs.
C27_Witness ==
    /\ Finished
    /\ ApplyExitedZero
    /\ Cardinality(Idx("apply")) = 2
    /\ cmds[Max(Idx("output"))].out = "raise"
    /\ result.status = "success"
    /\ result.outputs = EmptyDict
    /\ Truthy(result.credentials)

\* The job returned success with outputs that carry actual_port, and it was
\* given credentials that carry superset_url.
PortReported ==
    /\ Truthy(task.credentials)
    /\ "superset_url" \in DOMAIN task.credentials
    /\ "actual_port" \in DOMAIN result.outputs

\* C28: in a success result, when the job's credentials carry superset_url
\* and the outputs carry actual_port, the returned credentials have port equal
\* to the outputs' actual_port and the boolean port_changed equal to the
\* outputs' flag, FALSE when the outputs carry none, and every other key given
\* keeps its value; in every other success result the credentials are the ones
\* passed in.
C28_PortEnrichment ==
    (Finished /\ result.status = "success") =>
        IF PortReported
        THEN /\ result.credentials["port"] = result.outputs["actual_port"].value
             /\ result.credentials["port_changed"] =
                    IF "port_changed" \in DOMAIN result.outputs
                    THEN result.outputs["port_changed"].value ELSE FALSE
             /\ result.credentials["port_changed"] \in BOOLEAN
             /\ \A k \in DOMAIN task.credentials \ PortKeys :
                    /\ k \in DOMAIN result.credentials
                    /\ result.credentials[k] = task.credentials[k]
        ELSE result.credentials = task.credentials

\* Superset credentials that came with a port, and outputs that report the
\* port actually used without a port_changed flag.
C28_Witness ==
    /\ Finished
    /\ result.status = "success"
    /\ PortReported
    /\ "port" \in DOMAIN task.credentials
    /\ "port_changed" \notin DOMAIN result.outputs
    /\ result.credentials["port"] = 8088
    /\ result.credentials["port_changed"] = FALSE

\* ------------------------------------------------ claims on the rendering

\* Lines of the template that assign a replaced key.
ReplacedLines ==
    { i \in 1..Len(template.warehouse.lines) :
        AssignedKey(template.warehouse.lines[i]) \in DOMAIN task.replacements }

\* The replacement value of the key line i assigns.
ValueAt(i) == task.replacements[AssignedKey(template.warehouse.lines[i])]

\* The text written after the "=" of line i, without the blank that follows
\* the "=".
RenderedAt(i) == Tail(written.lines[i].post)

WrittenValue(key, stored) ==
    IF key \in {"outputs", "credentials"} THEN stored.val ELSE stored

\* C31 (as claimed): every value written to a job record (a status, a
\* timestamp, an outputs mapping, a credentials mapping, by update_job or by
\* store_job_credentials) is what get_job returns for that field.
C31_WrittenValuesRoundTrip ==
    \A id \in DOMAIN store :
        \A key \in DOMAIN store[id] \cap
                   {"status", "created_at", "completed_at", "outputs", "credentials"} :
            GetJob(id)[key] = WrittenValue(key, store[id][key])

\* The methods of the Job Store alone, called in any order.
JobStoreNext ==
    \/ CreateJob
    \/ UpdateJob
    \/ SetJobRunning
    \/ SetJobSuccess
    \/ SetJobError
    \/ StoreJobCredentials

JobStoreSpec == StoreInit /\ [][JobStoreNext]_vars

\* The fields a call of update_job passes with a value that is not None.
PassedFields(kwargs) == {k \in DOMAIN kwargs : kwargs[k] # <<>>}

\* C32: a call update_job(id, fields) on an existing record changes only the
\* fields passed with a non-null value: every other field of the record keeps
\* its value, no field is added but the passed ones, and every other record
\* and the set of records stay as they were; on an unknown id the call raises
\* ValueError and the store is left as it was.
C32_UpdateJobIsPartialMerge ==
    [][ \A id \in JobIds, kwargs \in UpdateJobInputs :
          (CountOp /\ UpdateJobWrites(id, kwargs)) =>
              /\ DOMAIN store' = DOMAIN store
              /\ \A j \in DOMAIN store \ {id} : store'[j] = store[j]
              /\ IF JobExists(id)
                 THEN /\ DOMAIN store'[id] = DOMAIN store[id] \cup PassedFields(kwargs)
                      /\ \A k \in DOMAIN store[id] \ PassedFields(kwargs) :
                             store'[id][k] = store[id][k]
                      /\ UpdateJobReturn(id) = GetJob(id)'
                 ELSE /\ store' = store
                      /\ UpdateJobReturn(id) = [raises |-> "ValueError"] ]_vars

\* Two records exist; the first was given a task id and then a status, and
\* each call kept what the other wrote; the second record is as created.
C32_Witness ==
    /\ DOMAIN store = {1, 2}
    /\ "task_id" \in DOMAIN store[1]
    /\ store[1]["task_id"] = "task-1"
    /\ store[1]["status"] = "running"
    /\ store[1]["created_at"] = 1
    /\ "error" \notin DOMAIN store[1]
    /\ store[2]["status"] = "pending"

\* =================================================== expiry of job records
\* services/terraform_job_store.py against Redis: a key has an expiry only
\* after EXPIRE; HMSET and HSET create a missing key without one and leave
\* the expiry of an existing key alone; an expired key is deleted.  Each
\* store call is split at the Redis commands it issues.

\* The hash after HMSET / HSET of data on the key job:<id>, existing or not.
Written(id, data) ==
    [j \in (DOMAIN store) \cup {id} |->
        IF j # id THEN store[j]
        ELSE IF JobExists(id) THEN Merge(store[id], data) ELSE data]

ExpiryFrame ==
    /\ UNCHANGED resp
    /\ UNCHANGED seqVars
    /\ UNCHANGED <<template, written, pipeVars, lockVars>>

\* create_job, line 49: HMSET of the initial record on a fresh key.
CreateJobHmset ==
    /\ call = NoCall
    /\ CountOp
    /\ \E id \in JobIds :
        /\ ~JobExists(id)
        /\ store' = Written(id, NewJobHash(id))
        /\ call' = [op |-> "create_job", id |-> id, data |-> EmptyDict]
    /\ UNCHANGED ttl
    /\ ExpiryFrame

\* create_job, line 50: EXPIRE of 24 hours on the key.
CreateJobExpire ==
    /\ call.op = "create_job"
    /\ ttl' = ttl \cup {call.id}
    /\ call' = NoCall
    /\ UNCHANGED <<store, storeOps>>
    /\ ExpiryFrame

\* create_job, line 50: the EXPIRE command raises (connection lost) and the
\* call ends with the exception.
CreateJobExpireRaises ==
    /\ call.op = "create_job"
    /\ call' = NoCall
    /\ UNCHANGED <<store, storeOps, ttl>>
    /\ ExpiryFrame

\* update_job, lines 95-97: EXISTS; an unknown id raises ValueError.
UpdateJobExists ==
    /\ call = NoCall
    /\ CountOp
    /\ \E id \in JobIds, kwargs \in UpdateJobInputs :
        call' = IF JobExists(id)
                THEN [op |-> "update_job", id |-> id, data |-> UpdateData(kwargs)]
                ELSE NoCall
    /\ UNCHANGED <<store, ttl>>
    /\ ExpiryFrame

\* update_job, lines 115-117: HMSET of update_data; no EXPIRE follows.
UpdateJobHmset ==
    /\ call.op = "update_job"
    /\ store' = Written(call.id, call.data)
    /\ call' = NoCall
    /\ UNCHANGED <<storeOps, ttl>>
    /\ ExpiryFrame

\* store_job_credentials, lines 186-190: the checks and EXISTS.
StoreJobCredentialsExists ==
    /\ call = NoCall
    /\ CountOp
    /\ \E id \in JobIds, credentials \in {Null, EmptyDict, WarehouseJobCredentials} :
        call' = IF Truthy(credentials) /\ JobExists(id)
                THEN [op |-> "store_job_credentials", id |-> id,
                      data |-> [credentials |-> [enc |-> "json", val |-> credentials]]]
                ELSE NoCall
    /\ UNCHANGED <<store, ttl>>
    /\ ExpiryFrame

\* store_job_credentials, lines 193-194: HSET of the JSON text; no EXPIRE.
StoreJobCredentialsHset ==
    /\ call.op = "store_job_credentials"
    /\ store' = Written(call.id, call.data)
    /\ call' = NoCall
    /\ UNCHANGED <<storeOps, ttl>>
    /\ ExpiryFrame

\* Redis deletes a key whose expiry has passed, whatever call is in flight.
KeyExpires ==
    /\ \E id \in ttl :
        /\ store' = [j \in (DOMAIN store) \ {id} |-> store[j]]
        /\ ttl' = ttl \ {id}
    /\ UNCHANGED <<storeOps, call>>
    /\ ExpiryFrame

ExpiryNext ==
    \/ CreateJobHmset
    \/ CreateJobExpire
    \/ CreateJobExpireRaises
    \/ UpdateJobExists
    \/ UpdateJobHmset
    \/ StoreJobCredentialsExists
    \/ StoreJobCredentialsHset
    \/ KeyExpires

ExpirySpec == StoreInit /\ [][ExpiryNext]_vars

\* C33 (as claimed): when no store call is in flight, every job record in
\* the store has an expiry set.
C33_EveryRecordExpires == call = NoCall => DOMAIN store \subseteq ttl

\* A record written by update_job or store_job_credentials after its key had
\* expired: it lacks the fields of create_job and has no expiry.
RecreatedWithoutExpiry ==
    /\ call = NoCall
    /\ \E id \in DOMAIN store : id \notin ttl /\ "job_id" \notin DOMAIN store[id]

\* ===================================================== the Command Runner
\* tasks/terraform.py run_with_live_output, lines 19-90.  The child writes
\* one byte at a time to the pipe of its stdout or of its stderr and blocks
\* while that pipe is full; it exits after its last write, which closes the
\* write ends.  A reader thread is unstarted, reading, or at eof.

Streams == {"stdout", "stderr"}

RECURSIVE Programs(_)
\* The sequences of at most n writes, each to one of the streams.
Programs(n) ==
    IF n = 0 THEN {<<>>}
    ELSE Programs(n - 1) \cup
         {Append(p, s) : p \in {q \in Programs(n - 1) : Len(q) = n - 1}, s \in Streams}

\* Reading one stream to its end before the other: the stderr reader waits
\* for the stdout reader to finish.
ReadingInTurn(s) ==
    /\ runner.readers[s] = "reading"
    /\ s = "stderr" => runner.readers["stdout"] = "eof"

\* process_stream(stream) is in its readline loop: the thread was started and
\* has not read the end of the stream.
Reading(s) == runner.readers[s] = "reading"

PipeFrame ==
    /\ UNCHANGED seqVars
    /\ UNCHANGED <<store, storeOps, resp, template, written, expiryVars, lockVars>>

\* Lines 33-39: Popen starts the child with both streams piped.
Popen ==
    /\ runner.pc = "idle"
    /\ \E prog \in Programs(MaxWrites) :
           child' = [state |-> "running", prog |-> prog]
    /\ runner' = [pc |-> "start_stdout",
                  readers |-> [s \in Streams |-> "unstarted"]]
    /\ UNCHANGED pipe
    /\ PipeFrame

\* Line 74: stdout_thread.start().
StartStdoutThread ==
    /\ runner.pc = "start_stdout"
    /\ runner' = [runner EXCEPT !.pc = "start_stderr",
                                !.readers["stdout"] = "reading"]
    /\ UNCHANGED <<child, pipe>>
    /\ PipeFrame

\* Line 75: stderr_thread.start().
StartStderrThread ==
    /\ runner.pc = "start_stderr"
    /\ runner' = [runner EXCEPT !.pc = "join_stdout",
                                !.readers["stderr"] = "reading"]
    /\ UNCHANGED <<child, pipe>>
    /\ PipeFrame

\* The child's next write, when its pipe has room.
ChildWrites ==
    /\ child.state = "running"
    /\ child.prog # <<>>
    /\ pipe[Head(child.prog)] < PipeCapacity
    /\ pipe' = [pipe EXCEPT ![Head(child.prog)] = @ + 1]
    /\ child' = [child EXCEPT !.prog = Tail(@)]
    /\ UNCHANGED runner
    /\ PipeFrame

\* The child exits after its last write.
ChildExits ==
    /\ child.state = "running"
    /\ child.prog = <<>>
    /\ child' = [child EXCEPT !.state = "exited"]
    /\ UNCHANGED <<pipe, runner>>
    /\ PipeFrame

\* Line 48: stream.readline() takes what the pipe holds.
ReadLine(s) ==
    /\ Reading(s)
    /\ pipe[s] > 0
    /\ pipe' = [pipe EXCEPT ![s] = 0]
    /\ UNCHANGED <<child, runner>>
    /\ PipeFrame

\* Lines 48-50: readline returns '' at the end of the stream, when the pipe
\* is empty and its write end closed; the thread ends.
ReadEof(s) ==
    /\ Reading(s)
    /\ pipe[s] = 0
    /\ child.state = "exited"
    /\ runner' = [runner EXCEPT !.readers[s] = "eof"]
    /\ UNCHANGED <<child, pipe>>
    /\ PipeFrame

\* Line 78: stdout_thread.join().
JoinStdout ==
    /\ runner.pc = "join_stdout"
    /\ runner.readers["stdout"] = "eof"
    /\ runner' = [runner EXCEPT !.pc = "join_stderr"]
    /\ UNCHANGED <<child, pipe>>
    /\ PipeFrame

\* Line 79: stderr_thread.join().
JoinStderr ==
    /\ runner.pc = "join_stderr"
    /\ runner.readers["stderr"] = "eof"
    /\ runner' = [runner EXCEPT !.pc = "wait"]
    /\ UNCHANGED <<child, pipe>>
    /\ PipeFrame

\* Lines 82-90: process.wait() and the return of the tuple.
WaitAndReturn ==
    /\ runner.pc = "wait"
    /\ child.state = "exited"
    /\ runner' = [runner EXCEPT !.pc = "returned"]
    /\ UNCHANGED <<child, pipe>>
    /\ PipeFrame

ReadStdout == ReadLine("stdout")

ReadStderr == ReadLine("stderr")

EofStdout == ReadEof("stdout")

EofStderr == ReadEof("stderr")

PipeNext ==
    \/ Popen
    \/ StartStdoutThread
    \/ StartStderrThread
    \/ ChildWrites
    \/ ChildExits
    \/ ReadStdout
    \/ ReadStderr
    \/ EofStdout
    \/ EofStderr
    \/ JoinStdout
    \/ JoinStderr
    \/ WaitAndReturn

PipeSpec == StoreInit /\ [][PipeNext]_vars

\* The operating system schedules the child, the main thread and each of
\* the reader threads: a step of one of them that stays possible is taken.
FairPipeSpec ==
    /\ PipeSpec
    /\ WF_vars(StartStdoutThread) /\ WF_vars(StartStderrThread)
    /\ WF_vars(ChildWrites) /\ WF_vars(ChildExits)
    /\ WF_vars(ReadStdout) /\ WF_vars(ReadStderr)
    /\ WF_vars(EofStdout) /\ WF_vars(EofStderr)
    /\ WF_vars(JoinStdout) /\ WF_vars(JoinStderr)
    /\ WF_vars(WaitAndReturn)

\* C34: run_with_live_output returns whenever it has started a child,
\* whatever the order and the number of the child's writes to its two pipes:
\* the child is never left blocked on a full pipe for ever.
C34_RunnerReturns ==
    (child.state = "running") ~> (runner.pc = "returned" /\ child.state = "exited")

\* The child is blocked on its full stderr pipe, with more to write than the
\* pipe holds, while the main thread waits in stdout_thread.join().
C34_Witness ==
    /\ runner.pc = "join_stdout"
    /\ child.state = "running"
    /\ Len(child.prog) > PipeCapacity
    /\ Head(child.prog) = "stderr"
    /\ pipe["stderr"] = PipeCapacity
    /\ pipe["stdout"] = 0

\* ================================================ two jobs on one module
\* tasks/terraform.py lines 260-397 run by two worker processes at once
\* (core/celery_app.py sets no worker concurrency: the pool has one process
\* per CPU, each taking one job).  The tool's state lock of the module
\* directory is held by one command at a time: a command started with the
\* lock enabled takes it or fails at once with a lock error that names the
\* holder; a command started with -lock=false neither takes nor checks it.
\* A job is [at, run, seen, forced]: its position, whether its command runs
\* ("holding" with the lock enabled, "free" with -lock=false), the holder
\* its state list reported, and whether its lock was force-released.

LockJobs == {"a", "b"}

\* Every command passes -lock=false.
LockingDisabledAlways(at) == at = at

\* Lines 322 and 354: the retry of plan and of apply passes -lock=false.
LockingDisabled(at) == at \in {"plan_retry", "apply_retry"}

MutatingPhases == {"plan", "plan_retry", "apply", "apply_retry", "destroy"}

LockFrame ==
    /\ UNCHANGED seqVars
    /\ UNCHANGED <<store, storeOps, resp, template, written, expiryVars, pipeVars>>

\* Two jobs are taken up for the same module directory.
TwoJobsStart ==
    /\ jobs = <<>>
    /\ jobs' = [j \in LockJobs |->
                   [at |-> "state_list", run |-> "idle",
                    seen |-> Unlocked, forced |-> FALSE]]
    /\ UNCHANGED lock
    /\ LockFrame

\* Lines 263-271: terraform state list; when a lock is held its stderr may
\* name the lock, and the job goes on to force-unlock it.
LockStateList(j) ==
    /\ jobs[j].at = "state_list"
    /\ \/ jobs' = [jobs EXCEPT ![j].at = "init"]
       \/ /\ lock # Unlocked
          /\ jobs' = [jobs EXCEPT ![j].at = "force_unlock", ![j].seen = lock]
    /\ UNCHANGED lock
    /\ LockFrame

\* Lines 272-277: terraform force-unlock -force <id> releases the lock it
\* names if that lock is still held.
LockForceUnlock(j) ==
    /\ jobs[j].at = "force_unlock"
    /\ IF lock = jobs[j].seen
       THEN /\ lock' = Unlocked
            /\ jobs' = [jobs EXCEPT ![j].at = "init", ![lock].forced = TRUE]
       ELSE /\ UNCHANGED lock
            /\ jobs' = [jobs EXCEPT ![j].at = "init"]
    /\ LockFrame

\* Lines 283-309: init, which leaves the state alone.
LockInit(j) ==
    /\ jobs[j].at = "init"
    /\ \E next \in {"plan", "done"} : jobs' = [jobs EXCEPT ![j].at = next]
    /\ UNCHANGED lock
    /\ LockFrame

\* Lines 313-316, 345-348 and 365-368: plan, apply or destroy starts with
\* the lock enabled; lines 319-324 and 351-356: on a lock error plan and
\* apply go to their retry, and destroy has failed.  A retry starts with
\* -lock=false.
CommandStarts(j) ==
    /\ jobs[j].at \in MutatingPhases
    /\ jobs[j].run = "idle"
    /\ IF LockingDisabled(jobs[j].at)
       THEN /\ jobs' = [jobs EXCEPT ![j].run = "free"]
            /\ UNCHANGED lock
       ELSE IF lock = Unlocked
       THEN /\ jobs' = [jobs EXCEPT ![j].run = "holding", ![j].forced = FALSE]
            /\ lock' = j
       ELSE /\ jobs' = [jobs EXCEPT ![j].at =
                           CASE @ = "plan" -> "plan_retry"
                             [] @ = "apply" -> "apply_retry"
                             [] OTHER -> "done"]
            /\ UNCHANGED lock
    /\ LockFrame

\* The running command exits, with code zero or not, and gives up the lock
\* it holds; lines 327, 359 and 384: the job's next position.
CommandExits(j) ==
    /\ jobs[j].run # "idle"
    /\ \E zero \in BOOLEAN :
        jobs' = [jobs EXCEPT ![j].run = "idle",
                             ![j].at =
                    CASE @ \in {"plan", "plan_retry"} ->
                             IF zero THEN "apply" ELSE "done"
                      [] @ \in {"apply", "apply_retry"} ->
                             IF zero THEN "done" ELSE "destroy"
                      [] OTHER -> "done"]
    /\ lock' = IF lock = j /\ jobs[j].run = "holding" THEN Unlocked ELSE lock
    /\ LockFrame

StateListOfJob == \E j \in DOMAIN jobs : LockStateList(j)

ForceUnlockOfJob == \E j \in DOMAIN jobs : LockForceUnlock(j)

InitOfJob == \E j \in DOMAIN jobs : LockInit(j)

CommandOfJobStarts == \E j \in DOMAIN jobs : CommandStarts(j)

CommandOfJobExits == \E j \in DOMAIN jobs : CommandExits(j)

LockNext ==
    \/ TwoJobsStart
    \/ StateListOfJob
    \/ ForceUnlockOfJob
    \/ InitOfJob
    \/ CommandOfJobStarts
    \/ CommandOfJobExits

LockSpec == StoreInit /\ [][LockNext]_vars

\* Job j runs a plan, an apply or a destroy.
Mutating(j) == jobs[j].run # "idle" /\ jobs[j].at \in MutatingPhases

\* Job j runs an apply that holds the state lock.
ApplyHoldsLock(j) ==
    /\ jobs[j].run = "holding"
    /\ jobs[j].at = "apply"
    /\ lock = j

\* C35 (as claimed): no job's plan, apply or destroy runs while the other
\* job's apply holds the state lock.
C35_NoCommandBesideLockedApply ==
    jobs # <<>> =>
        \A a \in LockJobs : \A b \in LockJobs \ {a} : ~(ApplyHoldsLock(a) /\ Mutating(b))

\* C35 (amended): two jobs run plan, apply or destroy at the same time only
\* when one of them is a retry started with -lock=false, or when the lock of
\* one of them was force-released by the other job's lock cleanup.
C35_OverlapOnlyByBypass ==
    jobs # <<>> =>
        \A a \in LockJobs : \A b \in LockJobs \ {a} :
            (Mutating(a) /\ Mutating(b)) =>
                \E j \in {a, b} :
                    \/ jobs[j].at \in {"plan_retry", "apply_retry"}
                    \/ jobs[j].forced

\* Job a's apply holds the lock while job b's plan, retried with
\* -lock=false, runs.
C35_Witness ==
    /\ jobs # <<>>
    /\ ApplyHoldsLock("a")
    /\ jobs["b"].run = "free"
    /\ jobs["b"].at = "plan_retry"

\* ------------------------------------------- claims on the command count

\* The worker runs the tasks it is sent, and goes on with the task it holds.
WorkerSpec == PollInit /\ [][SendTask \/ WorkerNext]_vars

FairWorkerSpec == WorkerSpec /\ WF_vars(WorkerNext)

\* C36: a job runs at most 9 external commands, and a job that has come to
\* the lock cleanup returns a result whose status is "success" or "error".
C36_NineCommandsThenResult ==
    /\ [](Len(cmds) <= 9)
    /\ (pc = "state_list") ~>
           (pc = "returned" /\ result # Null /\ result.status \in {"success", "error"})

\* A job has run nine commands: the state list, the force-unlock, two
\* attempts each of init, plan and apply, and the destroy; it has returned.
C36_Witness ==
    /\ Len(cmds) = 9
    /\ cmds[2].cmd = "force_unlock"
    /\ cmds[9].cmd = "destroy"
    /\ pc = "returned"
    /\ result.status = "error"

\* ------------------------------- a database job and its job-scoped file

\* `APP_DB_PASS = "old_pass"`
PassLine == Line(<<"APP_DB_PASS", " ">>, TRUE, <<" ">> \o Quoted("old_pass"))

\* Canonical terraform.tfvars files of the warehouse module: one that
\* assigns the three database variables, the default one, which assigns no
\* password, and one that names the database in a comment only.
DbTemplates ==
    { FileText(<<StringLine, IndentedLine, PassLine>>, "lf", TRUE),
      DefaultTemplates.warehouse,
      FileText(<<CommentedOutLine, IndentedLine, PassLine>>, "lf", TRUE) }

DbJobInit ==
    /\ settings = DefaultSettings
    /\ fsScenario = "intact"
    /\ cwd = StartDir
    /\ dirs = {}
    /\ files = {}
    /\ nextId = 1
    /\ task = NoTask
    /\ taskState = "NONE"
    /\ pc = "idle"
    /\ tfPath = <<>>
    /\ tfvarsFile = Null
    /\ cmds = <<>>
    /\ result = Null
    /\ store = EmptyStore
    /\ storeOps = 0
    /\ resp = Null
    /\ \E f \in DbTemplates : template = [DefaultTemplates EXCEPT !.warehouse = f]
    /\ written = Null
    /\ EnvInit

\* Database jobs are requested and run, one after the other.
DbJobNext == CreatePostgresDb \/ WorkerNext

DbJobSpec == DbJobInit /\ [][DbJobNext]_vars

\* The variable of the job-scoped file that carries a credential.
DbVariable ==
    [dbname |-> "APP_DB_NAME", user |-> "APP_DB_USER", password |-> "APP_DB_PASS"]

\* The lines of the job-scoped file that assign the variable.
AssigningLines(variable) ==
    {i \in 1..Len(written.lines) : KeyMatches(variable, written.lines[i])}

\* The database job has returned a success result.
DbJobReturnedSuccess ==
    /\ pc = "returned"
    /\ result # Null
    /\ result.status = "success"
    /\ written # Null

SecretKeys ==
    { "APP_DB_PASS", "SUPERSET_ADMIN_PASSWORD", "SUPERSET_SECRET_KEY",
      "password", "admin_password" }

\* routes.py lines 220 and 235 (305 and 314 for Superset): the route logs the
\* replacements and the credentials of the task it enqueues.
ApiLog ==
    IF task = NoTask THEN <<>> ELSE <<task.replacements, task.credentials>>

\* tasks/terraform.py lines 129-130: the task logs the credentials and the
\* replacements it received; line 436: and the credentials it returns with a
\* success.
WorkerLog ==
    IF task = NoTask \/ pc \in {"idle", "queued"} THEN <<>>
    ELSE <<task.credentials, task.replacements>> \o
         (IF result # Null /\ result.status = "success"
          THEN <<result.credentials>> ELSE <<>>)

\* C38 (as claimed): no mapping written to the API log or to the worker log
\* holds a generated secret.
C38_NoSecretIsLogged ==
    \A i \in DOMAIN (ApiLog \o WorkerLog) :
        DOMAIN (ApiLog \o WorkerLog)[i] \cap SecretKeys = {}

\* ------------------------------------------------ claims on the outputs

\* The job returned success after an output command that printed valid JSON.
ReturnedWithJson ==
    /\ pc = "returned"
    /\ result # Null
    /\ result.status = "success"
    /\ cmds[Len(cmds)].cmd = "output"
    /\ cmds[Len(cmds)].out \in ValidJsonKinds

\* C39 (as claimed): the outputs of a success result are the parsed JSON of
\* the output command's stdout whenever that stdout is valid JSON.
C39_OutputsAreParsedJson ==
    ReturnedWithJson => result.outputs = OutputJson(cmds[Len(cmds)].out)

\* C39 (amended): the outputs of a success result are the parsed JSON when
\* its actual_port entry, if it has one, is a mapping, as the tool prints it;
\* when that entry is not a mapping the outputs are the empty mapping.
C39_OutputsAreParsedJsonOfToolShape ==
    ReturnedWithJson =>
        result.outputs = IF EnrichmentRaises(cmds[Len(cmds)].out) THEN EmptyDict
                         ELSE OutputJson(cmds[Len(cmds)].out)

\* The output command printed {"actual_port": 8089} and the job returned
\* success with empty outputs.
C39_Witness ==
    /\ ReturnedWithJson
    /\ cmds[Len(cmds)].out = "flat_port"
    /\ result.outputs = EmptyDict

====
